---- MODULE Spec2Model ----
(***************************************************************************)
(* Alert ingestion, deduplication, classification and notification         *)
(* pipeline of distribuidora-lucas: the metric (Power BI) path, the        *)
(* mailbox (IMAP) path, the shared Telegram dispatcher and the chat        *)
(* registration protocol.                                                  *)
(*                                                                         *)
(* Python strings are modelled as sequences of one-character strings, so   *)
(* that lower(), strip(), endswith() and the substring test are computed.  *)
(***************************************************************************)
EXTENDS Integers, Sequences, FiniteSets, TLC

(***************************************************************************)
(* Bounds of the model.                                                    *)
(***************************************************************************)
\* Columns per Power BI row in the id-detection specification.
MaxCols == 3
\* Active and inactive processing rules of one IMAP configuration.
MaxRules == 2
\* Rows in one fetched batch, and runs of the metric pipeline.
MaxBatch == 2
MaxRuns == 2
\* ReceivedEmail rows saved outside the mailbox runs.
MaxEmails == 1
\* The clock of the registration protocol runs from 0 to MaxTime.
MaxTime == 2
\* Fields of a record handed to the formatter.
MaxFields == 2
\* Alert definitions in the table.
MaxDefs == 2
\* The bot: updates sent to it, executions of its command, and the most
\* updates one getUpdates call returns.
MaxUpdates == 3
MaxStarts == 2
GetUpdatesLimit == 2

(***************************************************************************)
(* Strings.                                                                *)
(***************************************************************************)
UpperCase == <<"A","B","C","D","E","F","G","H","I","J","K","L","M",
               "N","O","P","Q","R","S","T","U","V","W","X","Y","Z">>
LowerCase == <<"a","b","c","d","e","f","g","h","i","j","k","l","m",
               "n","o","p","q","r","s","t","u","v","w","x","y","z">>

\* Code-point order of the characters the model uses (ASCII order).
AsciiOrder == <<" ", "#", "(", ",", ".", "0","1","2","3","4","5","6","7","8","9",
                ":", "@">>
              \o UpperCase \o <<"[", "]", "_">> \o LowerCase

Ord(c) == CHOOSE i \in 1..Len(AsciiOrder) : AsciiOrder[i] = c

\* str.lower() on one character.
LowerChar(c) ==
    IF \E i \in 1..Len(UpperCase) : UpperCase[i] = c
    THEN LowerCase[CHOOSE i \in 1..Len(UpperCase) : UpperCase[i] = c]
    ELSE c

\* str.upper() on one character.
UpperChar(c) ==
    IF \E i \in 1..Len(LowerCase) : LowerCase[i] = c
    THEN UpperCase[CHOOSE i \in 1..Len(LowerCase) : LowerCase[i] = c]
    ELSE c

lower(s) == [i \in 1..Len(s) |-> LowerChar(s[i])]

upper(s) == [i \in 1..Len(s) |-> UpperChar(s[i])]

RECURSIVE lstrip(_, _)
lstrip(s, chars) ==
    IF s # <<>> /\ Head(s) \in chars THEN lstrip(Tail(s), chars) ELSE s

RECURSIVE rstrip(_, _)
rstrip(s, chars) ==
    IF s # <<>> /\ s[Len(s)] \in chars
    THEN rstrip(SubSeq(s, 1, Len(s) - 1), chars)
    ELSE s

\* str.strip(chars): leading and trailing characters of the set removed.
strip(s, chars) == rstrip(lstrip(s, chars), chars)

Whitespace == {" "}

endswith(s, suffix) ==
    /\ Len(s) >= Len(suffix)
    /\ SubSeq(s, Len(s) - Len(suffix) + 1, Len(s)) = suffix

\* Python's `sub in s` on strings.
contains(sub, s) ==
    \E i \in 0..(Len(s) - Len(sub)) : SubSeq(s, i + 1, i + Len(sub)) = sub

\* Lexicographic s < t by code point (Python's comparison of str).
RECURSIVE StrLess(_, _)
StrLess(s, t) ==
    IF t = <<>> THEN FALSE
    ELSE IF s = <<>> THEN TRUE
    ELSE IF Head(s) = Head(t) THEN StrLess(Tail(s), Tail(t))
    ELSE Ord(Head(s)) < Ord(Head(t))

Min(S) == CHOOSE x \in S : \A y \in S : x <= y

(***************************************************************************)
(* Power BI rows: a dict is the sequence of its (key, value) items in      *)
(* insertion order, with distinct keys.  A value is a number; 0 stands for *)
(* every falsy value (None, 0, "").                                        *)
(***************************************************************************)
Digits == <<"0","1","2","3","4","5","6","7","8","9">>

\* str(value) of a cell.
str(v) == <<Digits[v + 1]>>

keys(row) == [i \in 1..Len(row) |-> row[i][1]]

HasKey(row, k) == \E i \in 1..Len(row) : row[i][1] = k

Get(row, k) == row[CHOOSE i \in 1..Len(row) : row[i][1] = k][2]

\* Optional[str] None: the empty name (both are falsy in `if id_field`).
None == <<>>

id_ == <<"i","d">>
us_id == <<"_","i","d">>
id_us == <<"i","d","_">>
Brackets == {"[", "]"}

IsExactId(key) == strip(lower(key), Brackets) = id_

IsSuffixId(key) ==
    \/ endswith(strip(lower(key), Brackets), us_id)
    \/ endswith(strip(lower(key), Brackets), id_us)

IsContainsId(key) == contains(id_, lower(key))

\* Mutant of _detect_id_field: the first column containing 'id' is taken
\* before the exact and the suffix matches are tried.
detect_id_field_ContainsFirst(row) ==
    IF row = <<>> THEN None
    ELSE LET ks == keys(row)
             cont == {i \in 1..Len(ks) : IsContainsId(ks[i])}
         IN IF cont # {} THEN ks[Min(cont)] ELSE ks[1]

\* PowerBIAlertService._detect_id_field
detect_id_field(row) ==
    IF row = <<>> THEN None
    ELSE LET ks == keys(row)
             exact == {i \in 1..Len(ks) : IsExactId(ks[i])}
             suffix == {i \in 1..Len(ks) : IsSuffixId(ks[i])}
             cont == {i \in 1..Len(ks) : IsContainsId(ks[i])}
         IN IF exact # {} THEN ks[Min(exact)]
            ELSE IF suffix # {} THEN ks[Min(suffix)]
            ELSE IF cont # {} THEN ks[Min(cont)]
            ELSE ks[1]

\* sorted(row.items()): the items ordered by key (keys are distinct).
RECURSIVE sorted_items(_)
sorted_items(row) ==
    IF row = <<>> THEN <<>>
    ELSE LET m == CHOOSE i \in 1..Len(row) :
                    \A j \in 1..Len(row) : j # i => StrLess(row[i][1], row[j][1])
             rest == [j \in 1..(Len(row) - 1) |-> IF j < m THEN row[j] ELSE row[j + 1]]
         IN <<row[m]>> \o sorted_items(rest)

\* str() of the sorted item list: "key:value," per item.
RECURSIVE items_str(_)
items_str(items) ==
    IF items = <<>> THEN <<>>
    ELSE Head(items)[1] \o <<":">> \o str(Head(items)[2]) \o <<",">>
         \o items_str(Tail(items))

\* hashlib.md5(content).hexdigest(): a digest that is a function of the
\* content alone; "#" keeps digests apart from str(value) ids.
md5(content) == <<"#">> \o content

\* PowerBIAlertService._get_record_id
get_record_id(row, id_field) ==
    IF id_field # None /\ HasKey(row, id_field) /\ Get(row, id_field) # 0
    THEN str(Get(row, id_field))
    ELSE md5(items_str(sorted_items(row)))

(***************************************************************************)
(* Classification of a mailbox record: keyword classifier and rules.       *)
(***************************************************************************)
\* IMAPService.get_email_priority; kw holds settings.HIGH_PRIORITY_KEYWORDS,
\* MEDIUM_PRIORITY_KEYWORDS and LOW_PRIORITY_KEYWORDS (lists of strings).
KeywordHit(list, text) ==
    \E i \in 1..Len(list) : contains(lower(list[i]), text)

text_to_analyze(subject, from_email, content) ==
    lower(subject \o <<" ">> \o from_email \o <<" ">> \o content)

\* Mutant of get_email_priority: the keyword is compared as configured,
\* without keyword.lower().
get_email_priority_NoLower(subject, from_email, content, kw) ==
    LET text == text_to_analyze(subject, from_email, content)
        hit(list) == \E i \in 1..Len(list) : contains(list[i], text)
    IN IF hit(kw.high) THEN "high"
       ELSE IF hit(kw.medium) THEN "medium"
       ELSE IF hit(kw.low) THEN "low"
       ELSE "medium"

get_email_priority(subject, from_email, content, kw) ==
    LET text == text_to_analyze(subject, from_email, content)
    IN IF KeywordHit(kw.high, text) THEN "high"
       ELSE IF KeywordHit(kw.medium, text) THEN "medium"
       ELSE IF KeywordHit(kw.low, text) THEN "low"
       ELSE "medium"

\* re.search(pattern, s, re.IGNORECASE) on the patterns of the model: a
\* pattern holding "(" is an unbalanced group and raises re.error; every
\* other pattern is a literal.
re_raises(pattern) == \E i \in 1..Len(pattern) : pattern[i] = "("

re_search(pattern, s) == contains(lower(pattern), lower(s))

\* Mutant of EmailProcessingRule.evaluate: a predicate that raises counts
\* as a match.
evaluate_RaiseMatches(rule, email_data) ==
    CASE rule.criteria_type = "subject_contains" ->
            contains(lower(rule.criteria_value), lower(email_data.subject))
      [] rule.criteria_type = "sender_contains" ->
            contains(lower(rule.criteria_value), lower(email_data.sender))
      [] rule.criteria_type = "body_contains" ->
            contains(lower(rule.criteria_value), lower(email_data.body))
      [] rule.criteria_type = "subject_regex" ->
            IF re_raises(rule.criteria_value) THEN TRUE
            ELSE re_search(rule.criteria_value, email_data.subject)
      [] rule.criteria_type = "sender_regex" ->
            IF re_raises(rule.criteria_value) THEN TRUE
            ELSE re_search(rule.criteria_value, email_data.sender)
      [] OTHER -> FALSE

\* EmailProcessingRule.evaluate: an exception of the predicate is False.
evaluate(rule, email_data) ==
    CASE rule.criteria_type = "subject_contains" ->
            contains(lower(rule.criteria_value), lower(email_data.subject))
      [] rule.criteria_type = "sender_contains" ->
            contains(lower(rule.criteria_value), lower(email_data.sender))
      [] rule.criteria_type = "body_contains" ->
            contains(lower(rule.criteria_value), lower(email_data.body))
      [] rule.criteria_type = "subject_regex" ->
            IF re_raises(rule.criteria_value) THEN FALSE
            ELSE re_search(rule.criteria_value, email_data.subject)
      [] rule.criteria_type = "sender_regex" ->
            IF re_raises(rule.criteria_value) THEN FALSE
            ELSE re_search(rule.criteria_value, email_data.sender)
      [] OTHER -> FALSE

\* ORDER BY "order", name: a before b.
RuleBefore(a, b) ==
    \/ a.order < b.order
    \/ a.order = b.order /\ StrLess(a.name, b.name)

\* EmailProcessingRule.objects.filter(is_active=True).order_by("order",
\* "name"): every order of the active rows (indices of the table) that the
\* sort key allows; rows with equal keys come in any order.
order_by_order_name(table) ==
    LET active == {i \in 1..Len(table) : table[i].is_active}
        n == Cardinality(active)
    IN {q \in [1..n -> active] :
            /\ \A i, j \in 1..n : i # j => q[i] # q[j]
            /\ \A i, j \in 1..n : i < j => ~RuleBefore(table[q[j]], table[q[i]])}

\* No user: IMAPEmailHandler._get_user_for_role reads self.config.company,
\* an attribute IMAPConfiguration does not have; the AttributeError is
\* caught inside the method, which returns None.
NoUser == "None"

get_user_for_role(role_type) == NoUser

\* Mutant of _apply_processing_rules: no break after the first match, so
\* the last matching rule decides.
apply_processing_rules_NoBreak(email_data, table, q, kw) ==
    LET base == get_email_priority(email_data.subject, email_data.sender,
                                   email_data.body, kw)
        m == {i \in 1..Len(q) : evaluate(table[q[i]], email_data)}
    IN IF m = {}
       THEN [priority |-> base, assigned_user |-> NoUser, rule |-> 0]
       ELSE LET last == CHOOSE i \in m : \A j \in m : j <= i
                r == table[q[last]]
            IN [priority |-> r.priority,
                assigned_user |-> IF r.assign_to_role # ""
                                  THEN get_user_for_role(r.assign_to_role)
                                  ELSE NoUser,
                rule |-> q[last]]

\* IMAPEmailHandler._apply_processing_rules; q is the query result (indices
\* of the rule table in evaluation order).  rule is the table index of the
\* rule applied, 0 when none.
apply_processing_rules(email_data, table, q, kw) ==
    LET base == get_email_priority(email_data.subject, email_data.sender,
                                   email_data.body, kw)
        m == {i \in 1..Len(q) : evaluate(table[q[i]], email_data)}
    IN IF m = {}
       THEN [priority |-> base, assigned_user |-> NoUser, rule |-> 0]
       ELSE LET r == table[q[Min(m)]]
            IN [priority |-> r.priority,
                assigned_user |-> IF r.assign_to_role # ""
                                  THEN get_user_for_role(r.assign_to_role)
                                  ELSE NoUser,
                rule |-> q[Min(m)]]

(***************************************************************************)
(* State.                                                                  *)
(***************************************************************************)
VARIABLES
    pbi_row,        \* id detection: the first row of a fetched batch
    pbi_detected,   \* id detection: <<>> or [id_field, record_id] for pbi_row
    email_data,     \* classification: the parsed message (sender, subject, body)
    settings_kw,    \* classification: the three keyword lists of settings
    rules,          \* classification: table of EmailProcessingRule rows
    classified,     \* classification: <<>> or the result for email_data
    telegram_config,    \* TRUE iff an active TelegramConfig row exists
    telegram_messages,  \* table TelegramMessage, in creation order
    telegram_outbox,    \* what the Bot API accepted (sendMessage ok), in order
    pbi_chats,      \* metric: definition.telegram_chats, rows [chat_id, is_active]
    pbi_instances,  \* metric: table PowerBIAlertInstance of the definition
    pbi_logs,       \* metric: table PowerBIProcessingLog of the definition
    pbi_last_check, \* metric: definition.last_check, as the number of the run
    pbi_runs,       \* metric: runs of _process_alert_definition so far
    pbi_result,     \* metric: <<>> or what the last run returned or raised
    pbi_trace,      \* metric: history of the last run, one entry per row
    telegram_chats, \* table TelegramChat, in creation order
    imap_mailbox,   \* mailbox: the messages on the IMAP server, by uid
    received_emails,\* mailbox: table ReceivedEmail of the tenant
    email_dispatch, \* mailbox: for each ReceivedEmail row, what its dispatch met
    imap_logs,      \* mailbox: table IMAPProcessingLog of the configuration
    imap_last_check,\* mailbox: config.last_check, as the number of the run
    imap_runs,      \* mailbox: runs of process_emails so far
    imap_result,    \* mailbox: <<>> or the counters and result of the last run
    imap_trace,     \* mailbox: history of the last run, one entry per message
    reg_codes,      \* registration: table TelegramRegistrationCode
    reg_user_chat,  \* registration: telegram_chat_id of the tenant's user, 0 if none
    reg_now,        \* registration: timezone.now()
    reg_created,    \* registration: per code, the chats created with it so far
    reg_last,       \* registration: <<>> or the history of the last /register
    fmt_definition, \* formatting: the alert definition and the service's setup
    fmt_row,        \* formatting: the metric record, pairs <<field, text of value>>
    fmt_out,        \* formatting: <<>> or [text, calls, via] of the last formatting
    cc_kind,        \* concurrent runs: "metric" or "mailbox", "" when idle
    cc_pc,          \* concurrent runs: per run, where it stands
    cc_local,       \* concurrent runs: per run, its local variables
    imap_run,       \* handler: <<>> or what the last `with IMAPEmailHandler` met
    pa_defs,        \* all definitions: table PowerBIAlertDefinition with its rows
    pa_now,         \* all definitions: timezone.now(), in check intervals
    pa_last,        \* all definitions: <<>> or the history of the last invocation
    tg_updates,     \* bot: the updates the Bot API received, update_id = position
    tg_confirmed,   \* bot: the Bot API forgot the updates up to this update_id
    bot_pc,         \* bot: "stopped" or "polling" (inside _run_polling)
    bot_daemon,     \* bot: the daemon_mode of the running command
    bot_offset,     \* bot: the local variable offset of _run_polling
    bot_handled,    \* bot: per update_id, how many times _process_update took it
    bot_run,        \* bot: the update_ids handled by this execution, in order
    bot_starts,     \* bot: executions of the command so far
    bot_last,       \* bot: <<>> or the history of the last getUpdates call
    retry_runs,     \* retry task: runs of retry_failed_alerts so far
    retry_result,   \* retry task: <<>> or what the last run returned and met
    send_attempts,  \* one destination: calls of _send_message_to_chat so far
    send_last,      \* one destination: <<>> or the history of the last call
    db_schema,      \* schema: connection.schema_name of the running process
    schema_calls,   \* schema: operations called so far
    schema_last     \* schema: <<>> or the operation called last and its path

varsDetect == <<pbi_row, pbi_detected>>
varsClassify == <<email_data, settings_kw, rules, classified>>
varsTelegram ==
    <<telegram_config, telegram_chats, telegram_messages, telegram_outbox>>
varsMetric ==
    <<pbi_chats, pbi_instances, pbi_logs, pbi_last_check, pbi_runs, pbi_result,
      pbi_trace>>
varsMail ==
    <<imap_mailbox, received_emails, email_dispatch, imap_logs,
      imap_last_check, imap_runs, imap_result, imap_trace>>
varsReg == <<reg_codes, reg_user_chat, reg_now, reg_created, reg_last>>
varsFormat == <<fmt_definition, fmt_row, fmt_out>>
\* The variables of the services modelled after registration.
varsConcurrent == <<cc_kind, cc_pc, cc_local>>
varsHandler == <<imap_run>>
varsAll == <<pa_defs, pa_now, pa_last>>
varsBot ==
    <<tg_updates, tg_confirmed, bot_pc, bot_daemon, bot_offset, bot_handled,
      bot_run, bot_starts, bot_last>>
varsLife == <<retry_runs, retry_result>>
varsSend == <<send_attempts, send_last>>
varsSchema == <<db_schema, schema_calls, schema_last>>
varsLate == <<varsSend, varsSchema>>
varsOps == <<varsBot, varsLife, varsLate>>
varsServices == <<varsFormat, varsConcurrent, varsHandler, varsAll, varsOps>>
vars == <<varsDetect, varsClassify, varsTelegram, varsMetric, varsMail, varsReg,
          varsServices>>

IdleDetect == pbi_row = <<>> /\ pbi_detected = <<>>
IdleClassify ==
    email_data = <<>> /\ settings_kw = <<>> /\ rules = <<>> /\ classified = <<>>
IdleTelegram ==
    /\ telegram_config = FALSE /\ telegram_chats = <<>>
    /\ telegram_messages = <<>> /\ telegram_outbox = <<>>
IdleMetric ==
    /\ pbi_chats = {} /\ pbi_instances = <<>> /\ pbi_logs = <<>>
    /\ pbi_last_check = 0 /\ pbi_runs = 0 /\ pbi_result = <<>> /\ pbi_trace = <<>>
IdleMail ==
    /\ imap_mailbox = <<>> /\ received_emails = <<>>
    /\ email_dispatch = <<>> /\ imap_logs = <<>> /\ imap_last_check = 0
    /\ imap_runs = 0 /\ imap_result = <<>> /\ imap_trace = <<>>
IdleReg ==
    /\ reg_codes = <<>> /\ reg_user_chat = 0 /\ reg_now = 0
    /\ reg_created = <<>> /\ reg_last = <<>>
IdleFormat == fmt_definition = <<>> /\ fmt_row = <<>> /\ fmt_out = <<>>
IdleConcurrent == cc_kind = "" /\ cc_pc = <<>> /\ cc_local = <<>>
IdleHandler == imap_run = <<>>
IdleAll == pa_defs = <<>> /\ pa_now = 0 /\ pa_last = <<>>
IdleBot ==
    /\ tg_updates = <<>> /\ tg_confirmed = 0 /\ bot_pc = "stopped"
    /\ bot_daemon = FALSE /\ bot_offset = 0 /\ bot_handled = <<>>
    /\ bot_run = <<>> /\ bot_starts = 0 /\ bot_last = <<>>
IdleLife == retry_runs = 0 /\ retry_result = <<>>
IdleSend == send_attempts = 0 /\ send_last = <<>>
IdleSchema == db_schema = "public" /\ schema_calls = 0 /\ schema_last = <<>>
IdleLate == IdleSend /\ IdleSchema
IdleOps == IdleBot /\ IdleLife /\ IdleLate
IdleServices == IdleFormat /\ IdleConcurrent /\ IdleHandler /\ IdleAll /\ IdleOps

(***************************************************************************)
(* Specification SpecDetect: stable-id derivation on one fetched row.      *)
(***************************************************************************)
Name_ == <<"N","a","m","e">>
ProductId_ == <<"P","r","o","d","u","c","t","I","d">>
Region_ == <<"R","e","g","i","o","n">>
ID_ == <<"I","D">>
A_ == <<"A">>
B_ == <<"B">>
x_id_ == <<"x","_","i","d">>
Paid__ == <<"P","a","i","d","_">>
BracketId_ == <<"[","i","d","]">>

ColumnNames == {Name_, ProductId_, Region_, ID_, A_, B_, x_id_, Paid__, BracketId_}

DistinctCols(cs) == \A i, j \in 1..Len(cs) : i # j => cs[i] # cs[j]

\* 0 is a falsy cell (None, 0, ""), 1 a truthy one.
CellValues == {0, 1}

\* The row with columns cs and cells vals.
RowOf(cs, vals) == [i \in 1..Len(cs) |-> <<cs[i], vals[i]>>]

InitDetect ==
    /\ \E n \in 1..MaxCols :
         \E cs \in [1..n -> ColumnNames] :
            /\ DistinctCols(cs)
            /\ \E vals \in [1..n -> CellValues] : pbi_row = RowOf(cs, vals)
    /\ pbi_detected = <<>>
    /\ IdleClassify /\ IdleTelegram /\ IdleMetric /\ IdleMail /\ IdleReg /\ IdleServices

\* _process_alert_definition, lines 567-572, on the first row of the batch.
DetectId ==
    /\ pbi_detected = <<>>
    /\ LET f == detect_id_field(pbi_row)
       IN pbi_detected' = [id_field |-> f, record_id |-> get_record_id(pbi_row, f)]
    /\ UNCHANGED <<pbi_row, varsClassify, varsTelegram, varsMetric, varsMail, varsReg, varsServices>>

NextDetect == DetectId

SpecDetect == InitDetect /\ [][NextDetect]_vars

(***************************************************************************)
(* Claims on the stable-id derivation (SpecDetect).                        *)
(***************************************************************************)
\* Tier of a column name in the detection order of _detect_id_field.
IdTier(key) ==
    IF IsExactId(key) THEN 1
    ELSE IF IsSuffixId(key) THEN 2
    ELSE IF IsContainsId(key) THEN 3
    ELSE 4

\* The detection order as the claim words it: exact 'id' (case-insensitive),
\* else ending in '_id', else containing 'id'; 0 when the name is not id-like.
ClaimedTier(key) ==
    IF lower(key) = id_ THEN 1
    ELSE IF endswith(lower(key), us_id) THEN 2
    ELSE IF contains(id_, lower(key)) THEN 3
    ELSE 0

PosOf(ks, k) == CHOOSE i \in 1..Len(ks) : ks[i] = k

URGENTE_pedido == <<"U","R","G","E","N","T","E"," ","p","e","d","i","d","o">>
hola == <<"h","o","l","a">>
client_x_com == <<"c","l","i","e","n","t","@","x",".","c","o","m">>
boss_vip_com == <<"b","o","s","s","@","v","i","p",".","c","o","m">>
promo_info == <<"p","r","o","m","o"," ","i","n","f","o">>
urgente == <<"u","r","g","e","n","t","e">>
URGENTE == <<"U","R","G","E","N","T","E">>
info == <<"i","n","f","o">>
Promo == <<"P","r","o","m","o">>
promo == <<"p","r","o","m","o">>
at_vip == <<"@","v","i","p">>
bad_regex == <<"(","u","r","g">>

Subjects == {URGENTE_pedido, hola}
Senders == {client_x_com, boss_vip_com}
Bodies == {<<>>, promo_info}

EmailDatas == [sender : Senders, subject : Subjects, body : Bodies]

KeywordSettings ==
    [high : {<<>>, <<urgente>>}, medium : {<<>>, <<info>>}, low : {<<>>, <<Promo>>}]

\* What a rule tests and assigns.
RuleEffects ==
    { [criteria_type |-> "subject_contains", criteria_value |-> URGENTE,
       priority |-> "critical", assign_to_role |-> "", is_active |-> TRUE],
      [criteria_type |-> "sender_contains", criteria_value |-> at_vip,
       priority |-> "high", assign_to_role |-> "manager", is_active |-> TRUE],
      [criteria_type |-> "subject_regex", criteria_value |-> bad_regex,
       priority |-> "low", assign_to_role |-> "", is_active |-> TRUE],
      [criteria_type |-> "body_contains", criteria_value |-> promo,
       priority |-> "low", assign_to_role |-> "", is_active |-> FALSE] }

\* Where a rule stands: (order, name).
RuleSlots ==
    { [order |-> 1, name |-> <<"a">>], [order |-> 1, name |-> <<"b">>],
      [order |-> 2, name |-> <<"a">>] }

RuleRows ==
    { [order |-> sl.order, name |-> sl.name,
       criteria_type |-> e.criteria_type, criteria_value |-> e.criteria_value,
       priority |-> e.priority, assign_to_role |-> e.assign_to_role,
       is_active |-> e.is_active] : sl \in RuleSlots, e \in RuleEffects }

\* The keyword settings tried together with a non-empty rule table.
RuleKeywordSettings ==
    { [high |-> <<>>, medium |-> <<>>, low |-> <<>>],
      [high |-> <<urgente>>, medium |-> <<>>, low |-> <<Promo>>] }

InitClassify ==
    /\ email_data \in EmailDatas
    /\ \/ rules = <<>> /\ settings_kw \in KeywordSettings
       \/ /\ \E n \in 1..MaxRules : rules \in [1..n -> RuleRows]
          /\ settings_kw \in RuleKeywordSettings
    /\ classified = <<>>
    /\ IdleDetect /\ IdleTelegram /\ IdleMetric /\ IdleMail /\ IdleReg /\ IdleServices

\* _process_single_email, line 371: the priority of a new message.
Classify ==
    /\ classified = <<>>
    /\ \E q \in order_by_order_name(rules) :
         classified' =
            [keyword_priority |->
                get_email_priority(email_data.subject, email_data.sender,
                                   email_data.body, settings_kw),
             result |-> apply_processing_rules(email_data, rules, q, settings_kw)]
    /\ UNCHANGED <<email_data, settings_kw, rules, varsDetect, varsTelegram, varsMetric,
                   varsMail, varsReg, varsServices>>

NextClassify == Classify

SpecClassify == InitClassify /\ [][NextClassify]_vars

(***************************************************************************)
(* Claims on the classification (SpecClassify).                            *)
(***************************************************************************)
\* The active rules of the table whose predicate holds of the message.
MatchingRules == {i \in 1..Len(rules) : rules[i].is_active /\ evaluate(rules[i], email_data)}

\* C5: the assigned priority is that of the first matching active rule in
\* ascending (order, name), whatever later rules match; with no matching rule
\* it is the priority computed by the keyword classifier.
C5_RulePrecedence ==
    classified # <<>> =>
        IF MatchingRules = {}
        THEN /\ classified.result.rule = 0
             /\ classified.result.priority = classified.keyword_priority
        ELSE /\ classified.result.rule \in MatchingRules
             /\ classified.result.priority = rules[classified.result.rule].priority
             /\ \A j \in MatchingRules :
                    ~RuleBefore(rules[j], rules[classified.result.rule])

\* The message matches a rule of order 1 (critical) and a rule of order 2
\* (high), and has been given critical.
C5_Witness ==
    /\ classified # <<>>
    /\ \E i, j \in MatchingRules :
          /\ rules[i].order = 1 /\ rules[i].priority = "critical"
          /\ rules[j].order = 2 /\ rules[j].priority = "high"
    /\ classified.result.priority = "critical"

\* keyword occurs in text at some offset, letters compared without case.
OccursIgnoringCase(keyword, text) ==
    \E off \in 0..(Len(text) - Len(keyword)) :
        \A k \in 1..Len(keyword) : LowerChar(keyword[k]) = LowerChar(text[off + k])

AnyKeywordIn(list) ==
    \E i \in 1..Len(list) :
        OccursIgnoringCase(list[i],
            email_data.subject \o <<" ">> \o email_data.sender \o <<" ">> \o email_data.body)

\* C6: get_email_priority is high if a high-tier keyword is a case-insensitive
\* substring of the concatenated subject, sender and body, else medium if a
\* medium-tier keyword is, else low if a low-tier keyword is, else medium.
C6_KeywordTiers ==
    classified # <<>> =>
        classified.keyword_priority =
            IF AnyKeywordIn(settings_kw.high) THEN "high"
            ELSE IF AnyKeywordIn(settings_kw.medium) THEN "medium"
            ELSE IF AnyKeywordIn(settings_kw.low) THEN "low"
            ELSE "medium"

\* Only a low-tier keyword, configured with a capital letter, occurs in the
\* message, and the classifier answered low.
C6_Witness ==
    /\ classified # <<>>
    /\ ~AnyKeywordIn(settings_kw.high)
    /\ ~AnyKeywordIn(settings_kw.medium)
    /\ settings_kw.low = <<Promo>>
    /\ AnyKeywordIn(settings_kw.low)
    /\ classified.keyword_priority = "low"

(***************************************************************************)
(* The Telegram dispatcher and the metric (Power BI) pipeline.             *)
(***************************************************************************)
\* error_message of an alert: a text, and for the joined per-chat errors of
\* the metric path the chats whose send raised.
NoError == [text |-> "", chats |-> <<>>]
ErrorMessage(t) == [text |-> t, chats |-> <<>>]
JoinedErrors(errors) == [text |-> "; ", chats |-> errors]

\* What one call of _send_message_to_chat meets: the HTTP call succeeds
\* ("ok"), it fails or raises inside _send_message_with_bot ("fail"), or
\* TelegramMessage.objects.create itself raises ("raised").
SendOutcomes == {"ok", "fail", "raised"}

ChatIds == {1, 2}

\* TelegramNotificationService._send_message_to_chat on tg, the pair of the
\* TelegramMessage table and the outbox: one log entry, created pending and
\* saved sent or failed; nothing is written when create raises.
send_message_to_chat(tg, chat_id, message_type, about, outcome) ==
    IF outcome = "raised"
    THEN [tg |-> tg, sent |-> FALSE, raised |-> TRUE]
    ELSE [tg |-> [msgs |-> Append(tg.msgs, [chat |-> chat_id,
                                            message_type |-> message_type,
                                            about |-> about,
                                            status |-> IF outcome = "ok" THEN "sent"
                                                       ELSE "failed"]),
                  outbox |-> IF outcome = "ok"
                             THEN Append(tg.outbox, [chat |-> chat_id, about |-> about])
                             ELSE tg.outbox],
          sent |-> outcome = "ok",
          raised |-> FALSE]

RECURSIVE SetToSeq(_)
\* A queryset of chats, iterated in ascending key order.
SetToSeq(S) == IF S = {} THEN <<>> ELSE <<Min(S)>> \o SetToSeq(S \ {Min(S)})

ActiveChatIds(chats) == {c.chat_id : c \in {d \in chats : d.is_active}}

RECURSIVE send_to_chats(_, _, _, _)
\* _send_to_telegram, lines 820-832: the loop over the active chats.
send_to_chats(ids, about, out, acc) ==
    IF ids = <<>> THEN acc
    ELSE LET r == send_message_to_chat(acc.tg, Head(ids), "powerbi_alert",
                                       about, out[Head(ids)])
         IN send_to_chats(Tail(ids), about, out,
               [tg |-> r.tg,
                success_count |-> acc.success_count + (IF r.sent THEN 1 ELSE 0),
                errors |-> IF r.raised THEN Append(acc.errors, Head(ids))
                           ELSE acc.errors,
                attempts |-> acc.attempts + 1])

\* The instance with primary key pk gets the given status and error.
SetStatus(insts, pk, status, error) ==
    [insts EXCEPT ![pk] = [@ EXCEPT !.status = status, !.error_message = error]]

\* PowerBIAlertInstance.mark_as_sent leaves error_message alone.
mark_as_sent(insts, pk) == [insts EXCEPT ![pk] = [@ EXCEPT !.status = "sent"]]

mark_as_failed(insts, pk, error) == SetStatus(insts, pk, "failed", error)

\* PowerBIAlertService._send_to_telegram on the instance pk.  out gives, for
\* each chat, what the send to it meets.
send_to_telegram(insts, tg, pk, chats, config, out) ==
    LET active == ActiveChatIds(chats)
        about == insts[pk].powerbi_record_id
    IN IF active = {}
       THEN [instances |-> SetStatus(insts, pk, "ignored",
                                     ErrorMessage("No hay chats configurados")),
             tg |-> tg, ret |-> FALSE, attempts |-> 0, successes |-> 0]
       ELSE IF ~config
       THEN \* TelegramNotificationService(company) raises ValueError
            [instances |-> mark_as_failed(insts, pk, ErrorMessage("Error Telegram")),
             tg |-> tg, ret |-> FALSE, attempts |-> 0, successes |-> 0]
       ELSE LET r == send_to_chats(SetToSeq(active), about, out,
                        [tg |-> tg, success_count |-> 0, errors |-> <<>>,
                         attempts |-> 0])
            IN IF r.success_count > 0
               THEN [instances |-> mark_as_sent(insts, pk),
                     tg |-> r.tg, ret |-> TRUE, attempts |-> r.attempts,
                     successes |-> r.success_count]
               ELSE [instances |->
                        mark_as_failed(insts, pk,
                           IF r.errors # <<>> THEN JoinedErrors(r.errors)
                           ELSE ErrorMessage("No se pudo enviar")),
                     tg |-> r.tg, ret |-> FALSE, attempts |-> r.attempts,
                     successes |-> 0]

\* unique_together (alert_definition, powerbi_record_id): the rows of one
\* definition that carry this record id.
HasInstance(insts, record_id) ==
    \E i \in 1..Len(insts) : insts[i].powerbi_record_id = record_id

\* PowerBIAlertService._create_alert_instance: the insert raises
\* IntegrityError when the record id is taken, and the error is re-raised.
create_alert_instance(insts, row, record_id) ==
    IF HasInstance(insts, record_id)
    THEN [raised |-> TRUE, instances |-> insts]
    ELSE [raised |-> FALSE,
          instances |-> Append(insts, [powerbi_record_id |-> record_id,
                                       raw_data |-> row,
                                       status |-> "pending",
                                       error_message |-> NoError])]

ZeroResult ==
    [records_fetched |-> 0, records_new |-> 0, records_skipped |-> 0,
     alerts_created |-> 0, alerts_sent |-> 0, alerts_failed |-> 0]

Range(f) == {f[x] : x \in DOMAIN f}

RECURSIVE record_ids(_, _)
\* _get_record_id of every row of the batch, under the detected id field.
record_ids(rows, id_field) ==
    IF rows = <<>> THEN <<>>
    ELSE <<get_record_id(Head(rows), id_field)>> \o record_ids(Tail(rows), id_field)

RECURSIVE process_rows(_, _, _, _, _, _)
\* _process_alert_definition, lines 571-601: the loop over the fetched rows.
\* ids[i] is _get_record_id(rows[i], id_field); ctx holds existing_ids, the
\* chats and the bot configuration; out[record_id] what the sends for that
\* record meet; st the tables, the result counters and the per-row history.
process_rows(rows, ids, i, ctx, out, st) ==
    IF i > Len(rows) THEN st
    ELSE
    LET row == rows[i]
        record_id == ids[i]
        had == HasInstance(st.instances, record_id)
        r == st.result
        skip == [st EXCEPT !.result.records_skipped = @ + 1,
                           !.trace = Append(@, [record_id |-> record_id,
                                                had_instance |-> had,
                                                counted |-> "skipped",
                                                created |-> FALSE,
                                                attempts |-> 0,
                                                successes |-> 0])]
        c == create_alert_instance(st.instances, row, record_id)
        pk == Len(c.instances)
        s == send_to_telegram(c.instances, st.tg, pk, ctx.chats, ctx.config,
                              out[record_id])
        new == IF c.raised
               THEN [st EXCEPT !.result.records_new = @ + 1,
                               !.result.alerts_failed = @ + 1,
                               !.trace = Append(@, [record_id |-> record_id,
                                                    had_instance |-> had,
                                                    counted |-> "failed",
                                                    created |-> FALSE,
                                                    attempts |-> 0,
                                                    successes |-> 0])]
               ELSE [instances |-> s.instances,
                     tg |-> s.tg,
                     result |-> [r EXCEPT !.records_new = @ + 1,
                                          !.alerts_created = @ + 1,
                                          !.alerts_sent = @ + (IF s.ret THEN 1 ELSE 0),
                                          !.alerts_failed = @ + (IF s.ret THEN 0 ELSE 1)],
                     trace |-> Append(st.trace, [record_id |-> record_id,
                                                 had_instance |-> had,
                                                 counted |-> IF s.ret THEN "sent"
                                                             ELSE "failed",
                                                 created |-> TRUE,
                                                 attempts |-> s.attempts,
                                                 successes |-> s.successes])]
    IN process_rows(rows, ids, i + 1, ctx, out,
          IF record_id = <<>> \/ record_id \in ctx.existing_ids THEN skip ELSE new)

\* PowerBIAlertService._log_definition_processing: the status of the log row.
log_status(result, has_error, status) ==
    IF status # "" THEN status
    ELSE IF result.alerts_failed > 0 THEN "warning"
    ELSE IF has_error THEN "error"
    ELSE "success"

log_definition_processing(logs, result, has_error, status) ==
    Append(logs, [status |-> log_status(result, has_error, status),
                  has_error |-> has_error,
                  result |-> result])

(***************************************************************************)
(* Specification SpecMetric: runs of _process_alert_definition on one      *)
(* alert definition.                                                       *)
(***************************************************************************)
\* Rows of the definition's query: an ID column, falsy or not, and a name.
MetricRows == {RowOf(<<ID_, Name_>>, <<v, 1>>) : v \in CellValues}

MetricChats ==
    { {},
      {[chat_id |-> 1, is_active |-> FALSE]},
      {[chat_id |-> 1, is_active |-> TRUE]},
      {[chat_id |-> 1, is_active |-> TRUE], [chat_id |-> 2, is_active |-> TRUE]} }

InitMetric ==
    /\ pbi_chats \in MetricChats
    /\ telegram_config \in BOOLEAN
    /\ telegram_chats = <<>>
    /\ telegram_messages = <<>> /\ telegram_outbox = <<>>
    /\ pbi_instances = <<>> /\ pbi_logs = <<>>
    /\ pbi_last_check = 0 /\ pbi_runs = 0 /\ pbi_result = <<>> /\ pbi_trace = <<>>
    /\ IdleDetect /\ IdleClassify /\ IdleMail /\ IdleReg /\ IdleServices

\* _process_alert_definition when the configuration is incomplete or
\* execute_query raises: lines 615-624, an error log row and the re-raise.
ProcessAlertDefinitionRaises ==
    /\ pbi_runs < MaxRuns
    /\ pbi_runs' = pbi_runs + 1
    /\ pbi_logs' = log_definition_processing(pbi_logs, ZeroResult, TRUE, "error")
    /\ pbi_result' = [raised |-> TRUE, result |-> ZeroResult]
    /\ pbi_trace' = <<>>
    /\ UNCHANGED <<pbi_chats, pbi_instances, pbi_last_check, varsTelegram,
                   varsDetect, varsClassify, varsMail, varsReg, varsServices>>

\* _process_alert_definition when the query returns rows (possibly none).
ProcessAlertDefinition ==
    /\ pbi_runs < MaxRuns
    /\ pbi_runs' = pbi_runs + 1
    /\ \E n \in 0..MaxBatch : \E rows \in [1..n -> MetricRows] :
         IF rows = <<>>
         THEN /\ pbi_last_check' = pbi_runs + 1
              /\ pbi_logs' = log_definition_processing(pbi_logs, ZeroResult, FALSE, "")
              /\ pbi_result' = [raised |-> FALSE, result |-> ZeroResult]
              /\ pbi_trace' = <<>>
              /\ UNCHANGED <<pbi_instances, telegram_messages, telegram_outbox>>
         ELSE
         LET existing_ids == {pbi_instances[k].powerbi_record_id :
                                 k \in 1..Len(pbi_instances)}
             id_field == detect_id_field(rows[1])
         IN \E ids \in {record_ids(rows, id_field)} :
            \E sends \in [Range(ids) \ existing_ids ->
                             [ActiveChatIds(pbi_chats) -> SendOutcomes]] :
              LET st == process_rows(rows, ids, 1,
                           [existing_ids |-> existing_ids,
                            chats |-> pbi_chats, config |-> telegram_config],
                           sends,
                           [instances |-> pbi_instances,
                            tg |-> [msgs |-> telegram_messages,
                                    outbox |-> telegram_outbox],
                            result |-> [ZeroResult EXCEPT !.records_fetched = n],
                            trace |-> <<>>])
              IN /\ pbi_instances' = st.instances
                 /\ telegram_messages' = st.tg.msgs
                 /\ telegram_outbox' = st.tg.outbox
                 /\ pbi_last_check' = pbi_runs + 1
                 /\ pbi_logs' = log_definition_processing(pbi_logs, st.result, FALSE, "")
                 /\ pbi_result' = [raised |-> FALSE, result |-> st.result]
                 /\ pbi_trace' = st.trace
    /\ UNCHANGED <<pbi_chats, telegram_config, telegram_chats, varsDetect,
                   varsClassify, varsMail, varsReg, varsServices>>

NextMetric == ProcessAlertDefinitionRaises \/ ProcessAlertDefinition

SpecMetric == InitMetric /\ [][NextMetric]_vars

(***************************************************************************)
(* Claims on the metric pipeline (SpecMetric).                             *)
(***************************************************************************)
\* No two instances of the definition carry the same record id.
UniqueInstances ==
    \A i, j \in 1..Len(pbi_instances) :
        i # j => pbi_instances[i].powerbi_record_id # pbi_instances[j].powerbi_record_id

\* A row of the last run whose record id had an instance when the row was
\* processed was counted as skipped, created nothing and sent nothing.
SeenRowsSkipped ==
    \A k \in 1..Len(pbi_trace) :
        pbi_trace[k].had_instance =>
            /\ pbi_trace[k].counted = "skipped"
            /\ ~pbi_trace[k].created
            /\ pbi_trace[k].attempts = 0

\* C1: over any sequence of runs of the metric pipeline on one definition,
\* at most one instance exists per record id, and a fetched row whose record
\* id already has an instance is counted as skipped and causes no new
\* instance and no Telegram send.
C1_MetricDedup == UniqueInstances /\ SeenRowsSkipped

(***************************************************************************)
(* The mailbox (IMAP) pipeline and the dispatch of a ReceivedEmail.        *)
(***************************************************************************)
\* The (sender, subject, received_date) of a message or of a ReceivedEmail.
Triple(m) == <<m.sender, m.subject, m.received_date>>

\* ReceivedEmail.objects.filter(sender, subject, received_date).first()
ExistingEmail(emails, m) == \E k \in 1..Len(emails) : Triple(emails[k]) = Triple(m)

\* TelegramChat.objects.filter(company, is_active=True, email_alerts=True)
EmailAlertChats(chats, company) ==
    {chats[k].chat_id : k \in {j \in 1..Len(chats) :
        /\ chats[j].company = company
        /\ chats[j].is_active
        /\ chats[j].email_alerts}}

RECURSIVE send_email_to_chats(_, _, _, _)
\* send_email_alert, lines 110-126: the loop over the chats.  A send that
\* raises leaves the loop for the handler of line 142.
send_email_to_chats(ids, about, out, acc) ==
    IF ids = <<>> \/ acc.raised THEN acc
    ELSE LET r == send_message_to_chat(acc.tg, Head(ids), "email_alert", about,
                                       out[Head(ids)])
         IN send_email_to_chats(Tail(ids), about, out,
               [tg |-> r.tg,
                success_count |-> acc.success_count + (IF r.sent THEN 1 ELSE 0),
                raised |-> r.raised,
                attempts |-> acc.attempts + 1])

\* TelegramNotificationService.send_email_alert on the ReceivedEmail pk of
\* the tenant company.  out gives, for each chat, what the send to it meets.
send_email_alert(emails, tg, pk, chats, company, out) ==
    LET matching == EmailAlertChats(chats, company)
        r == send_email_to_chats(SetToSeq(matching), Triple(emails[pk]), out,
                [tg |-> tg, success_count |-> 0, raised |-> FALSE, attempts |-> 0])
        met == [matching |-> Cardinality(matching), attempts |-> r.attempts,
                successes |-> r.success_count, raised |-> r.raised]
    IN IF matching = {}
       THEN [emails |-> emails, tg |-> tg, ret |-> FALSE,
             met |-> [matching |-> 0, attempts |-> 0, successes |-> 0,
                      raised |-> FALSE]]
       ELSE IF r.raised
       THEN [emails |-> [emails EXCEPT ![pk] = [@ EXCEPT !.status = "failed",
                                                         !.error_message = "Error"]],
             tg |-> r.tg, ret |-> FALSE, met |-> met]
       ELSE IF r.success_count > 0
       THEN [emails |-> [emails EXCEPT ![pk] = [@ EXCEPT !.status = "sent"]],
             tg |-> r.tg, ret |-> TRUE, met |-> met]
       ELSE [emails |-> emails, tg |-> r.tg, ret |-> FALSE, met |-> met]

\* The post_save receiver of ReceivedEmail, for a row just created:
\* TelegramNotificationService() raises ValueError without an active bot
\* configuration, and the receiver swallows it.
send_telegram_alert_on_new_email(emails, tg, pk, chats, config, company, out) ==
    IF ~config
    THEN [emails |-> emails, tg |-> tg, ret |-> FALSE,
          met |-> [matching |-> 0, attempts |-> 0, successes |-> 0, raised |-> TRUE]]
    ELSE send_email_alert(emails, tg, pk, chats, company, out)

\* ReceivedEmail.objects.create(...): the row, then its post_save receiver.
create_received_email(emails, tg, m, priority, assigned_to, chats, config, company, out) ==
    LET row == [sender |-> m.sender, subject |-> m.subject, body |-> m.body,
                received_date |-> m.received_date, priority |-> priority,
                status |-> "pending", assigned_to |-> assigned_to,
                error_message |-> ""]
        table == Append(emails, row)
    IN send_telegram_alert_on_new_email(table, tg, Len(table), chats, config,
                                        company, out)

RECURSIVE classify_messages(_, _, _, _)
\* _apply_processing_rules of every message of the mailbox, by uid.
classify_messages(mailbox, table, q, kw) ==
    IF mailbox = <<>> THEN <<>>
    ELSE <<apply_processing_rules(Head(mailbox), table, q, kw)>>
         \o classify_messages(Tail(mailbox), table, q, kw)

RECURSIVE process_messages(_, _, _, _)
\* process_emails, lines 323-329, with _process_single_email for each fetched
\* message.  For a message without a record the row is created and its
\* post_save receiver dispatches it; then line 395 calls
\* self._send_telegram_notification, which IMAPEmailHandler does not define
\* (it is a method of IMAPService): the AttributeError leaves the atomic
\* block, which rolls back the ReceivedEmail and the TelegramMessage rows,
\* and the message is counted as failed and is not flagged.  What the Bot API
\* accepted stays sent.
process_messages(uids, ctx, out, st) ==
    IF uids = <<>> THEN st
    ELSE
    LET uid == Head(uids)
        m == st.mailbox[uid]
        had == ExistingEmail(st.emails, m)
        cls == ctx.classified[uid]
        c == create_received_email(st.emails, st.tg, m, cls.priority,
                                   cls.assigned_user, ctx.chats, ctx.config,
                                   ctx.company, out)
        pk == Len(c.emails)
        in_tx == IF cls.assigned_user # NoUser
                 THEN [c.emails EXCEPT ![pk] = [@ EXCEPT !.status = "processing"]]
                 ELSE c.emails
        existing == [st EXCEPT !.mailbox[uid] = [@ EXCEPT !.seen = TRUE],
                               !.processed_count = @ + 1,
                               !.trace = Append(@, [uid |-> uid,
                                                    had_record |-> TRUE,
                                                    counted |-> "processed",
                                                    flagged |-> TRUE,
                                                    priority |-> "",
                                                    status |-> "",
                                                    error_message |-> "",
                                                    met |-> <<>>])]
        new == [st EXCEPT !.tg = [@ EXCEPT !.outbox = c.tg.outbox],
                          !.failed_count = @ + 1,
                          !.trace = Append(@, [uid |-> uid,
                                               had_record |-> FALSE,
                                               counted |-> "failed",
                                               flagged |-> FALSE,
                                               priority |-> in_tx[pk].priority,
                                               status |-> in_tx[pk].status,
                                               error_message |-> in_tx[pk].error_message,
                                               met |-> c.met])]
    IN process_messages(Tail(uids), ctx, out, IF had THEN existing ELSE new)

(***************************************************************************)
(* Specification SpecMail: runs of process_emails on one mailbox of one    *)
(* tenant, and ReceivedEmail rows saved outside the runs.                  *)
(***************************************************************************)
Tenant == "A"

Msg1 ==
    [sender |-> client_x_com, subject |-> URGENTE_pedido, body |-> <<>>,
     received_date |-> 1, seen |-> FALSE]
Msg2 ==
    [sender |-> client_x_com, subject |-> hola, body |-> <<>>,
     received_date |-> 1, seen |-> FALSE]

MailRule ==
    <<[order |-> 1, name |-> <<"a">>, criteria_type |-> "subject_contains",
       criteria_value |-> URGENTE, priority |-> "critical",
       assign_to_role |-> "manager", is_active |-> TRUE]>>

\* A mailbox with its table of rules.
MailBoxes ==
    { [mailbox |-> <<Msg1>>, rules |-> <<>>],
      [mailbox |-> <<Msg1, Msg1>>, rules |-> <<>>],
      [mailbox |-> <<Msg1, Msg2>>, rules |-> <<>>],
      [mailbox |-> <<Msg1, Msg2>>, rules |-> MailRule] }

ChatOf(id, company, email_alerts) ==
    [chat_id |-> id, company |-> company, is_active |-> TRUE,
     email_alerts |-> email_alerts]

\* A table of chats with the presence of an active bot configuration.
MailChatTables ==
    { [chats |-> <<>>, config |-> TRUE],
      [chats |-> <<ChatOf(1, Tenant, TRUE)>>, config |-> TRUE],
      [chats |-> <<ChatOf(1, Tenant, TRUE)>>, config |-> FALSE],
      [chats |-> <<ChatOf(1, Tenant, TRUE), ChatOf(2, Tenant, TRUE)>>, config |-> TRUE],
      [chats |-> <<ChatOf(1, Tenant, FALSE)>>, config |-> TRUE],
      [chats |-> <<ChatOf(1, "B", TRUE)>>, config |-> TRUE] }

MailKeywords == [high |-> <<urgente>>, medium |-> <<>>, low |-> <<>>]

InitMail ==
    /\ \E b \in MailBoxes : imap_mailbox = b.mailbox /\ rules = b.rules
    /\ \E t \in MailChatTables : telegram_chats = t.chats /\ telegram_config = t.config
    /\ settings_kw = MailKeywords
    /\ email_data = <<>> /\ classified = <<>>
    /\ telegram_messages = <<>> /\ telegram_outbox = <<>>
    /\ received_emails = <<>> /\ email_dispatch = <<>> /\ imap_logs = <<>>
    /\ imap_last_check = 0 /\ imap_runs = 0 /\ imap_result = <<>> /\ imap_trace = <<>>
    /\ IdleDetect /\ IdleMetric /\ IdleReg /\ IdleServices

\* IMAPEmailHandler.process_emails on a connected handler: the unread
\* messages are fetched and processed, the configuration is marked checked
\* and, when something was fetched, the run is logged.  FETCH (RFC822) sets
\* \\Seen on the fetched messages or not, as the server decides; out gives,
\* for each chat, what the sends to it meet during the run.
ProcessEmails ==
    /\ imap_runs < MaxRuns
    /\ imap_runs' = imap_runs + 1
    /\ imap_last_check' = imap_runs + 1
    /\ LET unread == {uid \in 1..Len(imap_mailbox) : ~imap_mailbox[uid].seen}
           fresh == {uid \in unread : ~ExistingEmail(received_emails, imap_mailbox[uid])}
           matching == EmailAlertChats(telegram_chats, Tenant)
       IN IF unread = {}
          THEN /\ imap_result' = [processed_count |-> 0, failed_count |-> 0,
                                  returned |-> TRUE]
               /\ imap_trace' = <<>>
               /\ UNCHANGED <<imap_mailbox, received_emails, imap_logs,
                              telegram_messages, telegram_outbox>>
          ELSE
          \E q \in order_by_order_name(rules) :
          \E cls \in {classify_messages(imap_mailbox, rules, q, settings_kw)} :
          \E fetch_sets_seen \in BOOLEAN :
          \E out \in [IF telegram_config /\ fresh # {} THEN matching ELSE {} ->
                          SendOutcomes] :
            LET st == process_messages(SetToSeq(unread),
                         [classified |-> cls, chats |-> telegram_chats, config |-> telegram_config,
                          company |-> Tenant],
                         out,
                         [mailbox |-> [uid \in 1..Len(imap_mailbox) |->
                                         [imap_mailbox[uid] EXCEPT !.seen =
                                             @ \/ (fetch_sets_seen /\ uid \in unread)]],
                          emails |-> received_emails,
                          tg |-> [msgs |-> telegram_messages,
                                  outbox |-> telegram_outbox],
                          processed_count |-> 0, failed_count |-> 0,
                          trace |-> <<>>])
            IN /\ imap_mailbox' = st.mailbox
               /\ received_emails' = st.emails
               /\ telegram_messages' = st.tg.msgs
               /\ telegram_outbox' = st.tg.outbox
               /\ imap_logs' = Append(imap_logs,
                                  [status |-> IF st.failed_count = 0 THEN "success"
                                              ELSE "warning",
                                   emails_processed |-> st.processed_count,
                                   emails_failed |-> st.failed_count])
               /\ imap_result' = [processed_count |-> st.processed_count,
                                  failed_count |-> st.failed_count,
                                  returned |-> TRUE]
               /\ imap_trace' = st.trace
    /\ UNCHANGED <<telegram_chats, telegram_config, email_dispatch, varsClassify,
                   varsDetect, varsMetric, varsReg, varsServices>>

\* A ReceivedEmail row is saved outside a mailbox run (the model's default
\* priority and status): its post_save receiver dispatches it and the whole
\* is committed.
NewReceivedEmail ==
    /\ Len(received_emails) < MaxEmails
    /\ \E m \in {Msg1, Msg2} :
       \E out \in [IF telegram_config THEN EmailAlertChats(telegram_chats, Tenant)
                    ELSE {} -> SendOutcomes] :
         LET c == create_received_email(received_emails,
                     [msgs |-> telegram_messages, outbox |-> telegram_outbox],
                     m, "medium", NoUser, telegram_chats, telegram_config,
                     Tenant, out)
         IN /\ received_emails' = c.emails
            /\ telegram_messages' = c.tg.msgs
            /\ telegram_outbox' = c.tg.outbox
            /\ email_dispatch' = Append(email_dispatch, c.met)
    /\ UNCHANGED <<telegram_chats, telegram_config, imap_mailbox, imap_logs,
                   imap_last_check, imap_runs, imap_result, imap_trace,
                   varsClassify, varsDetect, varsMetric, varsReg, varsServices>>

NextMail == ProcessEmails \/ NewReceivedEmail

SpecMail == InitMail /\ [][NextMail]_vars

(***************************************************************************)
(* Claims on the mailbox pipeline and on the dispatch (SpecMail).          *)
(***************************************************************************)
\* The persisted ReceivedEmail rows with the triple t.
RowsWith(t) == {k \in 1..Len(received_emails) : Triple(received_emails[k]) = t}

\* The notifications about the triple t that the Bot API accepted for chat c.
Deliveries(t, c) ==
    {k \in 1..Len(telegram_outbox) :
        telegram_outbox[k].about = t /\ telegram_outbox[k].chat = c}

\* C2: over any sequence of mailbox runs (no ReceivedEmail saved outside
\* them), each triple fetched by the last run has exactly one persisted
\* ReceivedEmail and has been notified to each destination at most once, and
\* a fetched message whose triple had a record created no record and sent
\* nothing.
C2_MailboxDedup ==
    email_dispatch = <<>> =>
        \A k \in 1..Len(imap_trace) :
            LET t == Triple(imap_mailbox[imap_trace[k].uid])
            IN /\ Cardinality(RowsWith(t)) = 1
               /\ \A c \in ChatIds : Cardinality(Deliveries(t, c)) <= 1
               /\ imap_trace[k].had_record => imap_trace[k].counted = "processed"

\* The scenario of C3 after its run: one unread message Msg1, no rule, one
\* active destination of the tenant subscribed to email alerts, whose send
\* succeeded.
C3_Scenario ==
    /\ imap_runs = 1 /\ email_dispatch = <<>>
    /\ Len(imap_mailbox) = 1 /\ Triple(imap_mailbox[1]) = Triple(Msg1)
    /\ rules = <<>> /\ settings_kw = MailKeywords
    /\ telegram_chats = <<ChatOf(1, Tenant, TRUE)>> /\ telegram_config
    /\ Len(imap_trace) = 1 /\ ~imap_trace[1].had_record
    /\ imap_trace[1].met.successes = 1

\* C3: when the run of that scenario has ended, a ReceivedEmail for the
\* message exists with priority high and status sent, and the message is
\* flagged read on the server.
C3_EndToEnd ==
    C3_Scenario =>
        /\ \E k \in RowsWith(Triple(Msg1)) :
              /\ received_emails[k].priority = "high"
              /\ received_emails[k].status = "sent"
        /\ imap_mailbox[1].seen

\* The instance of the definition with the record id.
InstanceOf(record_id) ==
    pbi_instances[CHOOSE i \in 1..Len(pbi_instances) :
                     pbi_instances[i].powerbi_record_id = record_id]

AtLeastOne(successes) == IF successes > 0 THEN "sent" ELSE "failed"

\* The metric path of C7, on the rows of the last run.
C7_MetricPath ==
    \A k \in 1..Len(pbi_trace) :
        pbi_trace[k].created /\ pbi_trace[k].attempts > 0 =>
            InstanceOf(pbi_trace[k].record_id).status
                = AtLeastOne(pbi_trace[k].successes)

\* The mailbox path of C7, on the persisted rows and on the rows a run
\* created (their status when the dispatch had returned).
C7_MailboxPath ==
    /\ \A k \in 1..Len(received_emails) :
          email_dispatch[k].matching > 0 /\ ~email_dispatch[k].raised =>
              received_emails[k].status = AtLeastOne(email_dispatch[k].successes)
    /\ \A k \in 1..Len(imap_trace) :
          /\ ~imap_trace[k].had_record
          /\ imap_trace[k].met.matching > 0
          /\ ~imap_trace[k].met.raised
          => imap_trace[k].status = AtLeastOne(imap_trace[k].met.successes)

\* C7: after an alert has been dispatched to a non-empty set of matching
\* destinations and every send result is collected, its status is sent if at
\* least one send succeeded and failed if every send failed, never pending
\* or processing, on the mailbox path and on the metric path.
C7_AtLeastOne == C7_MetricPath /\ C7_MailboxPath

\* The metric path of C8.
C8_MetricPath ==
    \A k \in 1..Len(pbi_trace) :
        pbi_trace[k].created /\ ActiveChatIds(pbi_chats) = {} =>
            /\ InstanceOf(pbi_trace[k].record_id).status = "ignored"
            /\ InstanceOf(pbi_trace[k].record_id).error_message.text # ""

\* The mailbox path of C8.
C8_MailboxPath ==
    \A k \in 1..Len(received_emails) :
        email_dispatch[k].matching = 0 /\ ~email_dispatch[k].raised =>
            /\ received_emails[k].status = "ignored"
            /\ received_emails[k].error_message # ""

\* C8: an alert dispatched for a tenant with no active destination matching
\* its category ends with status ignored and a non-empty error message, on
\* the mailbox path and on the metric path.
C8_NoDestination == C8_MetricPath /\ C8_MailboxPath

(***************************************************************************)
(* The chat registration protocol (/register CODE).                        *)
(***************************************************************************)
\* TelegramRegistrationCode.objects.get(code=code_str): the rows with the
\* code (the column is unique).
FindCode(codes, code) == {k \in 1..Len(codes) : codes[k].code = code}

\* Mutant of is_expired: a code never expires.
is_expired_Never(rc, now) == FALSE

\* TelegramRegistrationCode.is_expired
is_expired(rc, now) == IF rc.expires_at = 0 THEN FALSE ELSE now > rc.expires_at

\* TelegramChat.objects.filter(chat_id=chat_id, company=company).first()
ExistingChatSameCompany(chats, chat_id, company) ==
    \E k \in 1..Len(chats) : chats[k].chat_id = chat_id /\ chats[k].company = company

\* Mutant of ExistingChat: the lookup by chat id alone finds nothing.
ExistingChat_Never(chats, chat_id) == FALSE

\* TelegramChat.objects.filter(chat_id=chat_id).first()
ExistingChat(chats, chat_id) == \E k \in 1..Len(chats) : chats[k].chat_id = chat_id

\* Mutant of code_mark_as_used: the code is left as it was.
code_mark_as_used_Noop(codes, k, chat, now) == codes

\* TelegramRegistrationCode.mark_as_used; the chat is referred to by its
\* chat id, which is unique in the chat table.
code_mark_as_used(codes, k, chat, now) ==
    [codes EXCEPT ![k] = [@ EXCEPT !.is_used = TRUE, !.used_at = now,
                                   !.used_by_chat = chat]]

\* The user of the one tenant user table of the model.
RegUser == [email |-> "u_a", company |-> "A"]

Rejected(db, error_code) ==
    [codes |-> db.codes, chats |-> db.chats, user_chat |-> db.user_chat,
     success |-> FALSE, error_code |-> error_code, by_code |-> 0]

\* TelegramRegistrationService.register_chat_with_code on the tables db
\* (codes, chats, user_chat, config, now).  by_code is the row of the code a
\* chat was created with, 0 when none was created.
register_chat_with_code(db, code_str, chat_id) ==
    LET code == upper(strip(code_str, Whitespace))
        found == FindCode(db.codes, code)
        k == CHOOSE j \in found : TRUE
        rc == db.codes[k]
        new_chat == [chat_id |-> chat_id, company |-> rc.company,
                     is_active |-> TRUE, email_alerts |-> TRUE]
        chats2 == Append(db.chats, new_chat)
    IN IF found = {} THEN Rejected(db, "CODE_NOT_FOUND")
       ELSE IF rc.is_used THEN Rejected(db, "CODE_ALREADY_USED")
       ELSE IF is_expired(rc, db.now) THEN Rejected(db, "CODE_EXPIRED")
       ELSE IF ExistingChatSameCompany(db.chats, chat_id, rc.company)
       THEN Rejected(db, "CHAT_ALREADY_REGISTERED_SAME_COMPANY")
       ELSE IF ExistingChat(db.chats, chat_id)
       THEN Rejected(db, "CHAT_ALREADY_REGISTERED_OTHER_COMPANY")
       ELSE IF ~db.config THEN Rejected(db, "NO_ACTIVE_BOT")
       ELSE IF \E j \in 1..Len(db.chats) : db.chats[j].chat_id = chat_id
       THEN \* chat_id is unique: the insert raises, the outer except answers
            Rejected(db, "INTERNAL_ERROR")
       ELSE [codes |-> code_mark_as_used(db.codes, k, chat_id, db.now),
             chats |-> chats2,
             user_chat |-> IF /\ rc.assigned_to_user_email = RegUser.email
                              /\ rc.company = RegUser.company
                           THEN chat_id ELSE db.user_chat,
             success |-> TRUE, error_code |-> "", by_code |-> k]

\* UserAdmin.unlink_telegram on the user: the chats its used codes were used
\* by are deleted (used_by_chat is SET_NULL), its unused codes are deleted.
unlink_telegram(db) ==
    LET mine(rc) == /\ rc.company = RegUser.company
                    /\ rc.assigned_to_user_email = RegUser.email
        gone == {db.codes[k].used_by_chat : k \in {j \in 1..Len(db.codes) :
                    /\ mine(db.codes[j]) /\ db.codes[j].is_used
                    /\ db.codes[j].used_by_chat # 0}}
        kept(rc) == ~(mine(rc) /\ ~rc.is_used)
        set_null(rc) == IF rc.used_by_chat \in gone
                        THEN [rc EXCEPT !.used_by_chat = 0] ELSE rc
        left == SelectSeq(db.codes, kept)
    IN [codes |-> [k \in 1..Len(left) |-> set_null(left[k])],
        chats |-> SelectSeq(db.chats, LAMBDA c : c.chat_id \notin gone),
        user_chat |-> 0]

(***************************************************************************)
(* Specification SpecReg: /register commands, the admin unlinking the      *)
(* user, and the passing of time.                                          *)
(***************************************************************************)
CodeOf(code, company, expires_at, email) ==
    [code |-> code, company |-> company, is_used |-> FALSE, used_at |-> 0,
     used_by_chat |-> 0, expires_at |-> expires_at,
     assigned_to_user_email |-> email]

\* The codes the admins generated: two of tenant A (one assigned to the
\* user), one of tenant B.
RegCodes ==
    << CodeOf(<<"A","1">>, "A", 1, RegUser.email),
       CodeOf(<<"B","2">>, "A", MaxTime, ""),
       CodeOf(<<"C","3">>, "B", MaxTime, "") >>

\* What users type after /register.
RawCodes == { <<"a","1">>, <<"A","1">>, <<"B","2">>, <<"c","3">>, <<"Z","9">> }

InitReg ==
    /\ reg_codes = RegCodes
    /\ reg_user_chat = 0
    /\ reg_now = 0
    /\ reg_created = [rc \in {RegCodes[k].code : k \in 1..Len(RegCodes)} |-> 0]
    /\ reg_last = <<>>
    /\ telegram_config \in BOOLEAN
    /\ telegram_chats = <<>>
    /\ telegram_messages = <<>> /\ telegram_outbox = <<>>
    /\ IdleDetect /\ IdleClassify /\ IdleMetric /\ IdleMail /\ IdleServices

\* The /register branch of the bot's command handler, with the service call.
RegisterChat ==
    \E part \in RawCodes, chat_id \in ChatIds :
      LET code == upper(strip(part, Whitespace))
          db == [codes |-> reg_codes, chats |-> telegram_chats,
                 user_chat |-> reg_user_chat, config |-> telegram_config,
                 now |-> reg_now]
          found == FindCode(reg_codes, upper(strip(code, Whitespace)))
          rc == reg_codes[CHOOSE k \in found : TRUE]
          bound == {telegram_chats[k].company : k \in {j \in 1..Len(telegram_chats) :
                        telegram_chats[j].chat_id = chat_id}}
      IN \E r \in {register_chat_with_code(db, code, chat_id)} :
           /\ reg_codes' = r.codes
           /\ telegram_chats' = r.chats
           /\ reg_user_chat' = r.user_chat
           /\ reg_created' = IF r.by_code = 0 THEN reg_created
                              ELSE [reg_created EXCEPT ![reg_codes[r.by_code].code] = @ + 1]
           /\ reg_last' =
                [code |-> code, chat_id |-> chat_id, success |-> r.success,
                 error_code |-> r.error_code,
                 was_found |-> found # {},
                 was_used |-> found # {} /\ rc.is_used,
                 was_expired |-> found # {} /\ is_expired(rc, reg_now),
                 used_by_before |-> IF found # {} THEN rc.used_by_chat ELSE 0,
                 code_company |-> IF found # {} THEN rc.company ELSE "",
                 bound_to |-> bound,
                 code_used_after |-> \E k \in 1..Len(r.codes) :
                                        r.codes[k].code = code /\ r.codes[k].is_used,
                 chats_added |-> Len(r.chats) - Len(telegram_chats),
                 chats_unchanged |-> r.chats = telegram_chats]
           /\ UNCHANGED <<reg_now, telegram_config, telegram_messages, telegram_outbox,
                          varsDetect, varsClassify, varsMetric, varsMail,
                   varsServices>>

\* The admin action "unlink_telegram" on the user.
UnlinkTelegram ==
    /\ \E r \in {unlink_telegram([codes |-> reg_codes, chats |-> telegram_chats])} :
         /\ reg_codes' = r.codes
         /\ telegram_chats' = r.chats
         /\ reg_user_chat' = r.user_chat
    /\ UNCHANGED <<reg_now, reg_created, reg_last, telegram_config, telegram_messages,
                   telegram_outbox, varsDetect, varsClassify, varsMetric, varsMail,
                   varsServices>>

\* timezone.now() advances.
Tick ==
    /\ reg_now < MaxTime + 1
    /\ reg_now' = reg_now + 1
    /\ UNCHANGED <<reg_codes, reg_user_chat, reg_created, reg_last, varsTelegram,
                   varsDetect, varsClassify, varsMetric, varsMail,
                   varsServices>>

NextReg == RegisterChat \/ UnlinkTelegram \/ Tick

SpecReg == InitReg /\ [][NextReg]_vars

(***************************************************************************)
(* Claims on registration.                                                 *)
(***************************************************************************)
\* The last /register named a code that was unused and unexpired.
LastCodeValid ==
    /\ reg_last # <<>>
    /\ reg_last.was_found /\ ~reg_last.was_used /\ ~reg_last.was_expired

\* C9: single-use registration.  Over any sequence of /register commands a
\* code creates at most one Destination, and it has created one exactly when
\* it is marked used; a successful /register had a valid code and added
\* exactly one Destination, marking the code used; every /register with a
\* code that is already used (from whatever channel) is answered
\* CODE_ALREADY_USED and creates no Destination.
C9_SingleUse ==
    /\ \A c \in DOMAIN reg_created : reg_created[c] <= 1
    /\ \A k \in 1..Len(reg_codes) :
         reg_codes[k].is_used <=> reg_created[reg_codes[k].code] = 1
    /\ reg_last # <<>> =>
         /\ reg_last.success =>
              /\ LastCodeValid
              /\ reg_last.chats_added = 1
              /\ reg_last.code_used_after
         /\ reg_last.was_used =>
              /\ ~reg_last.success
              /\ reg_last.error_code = "CODE_ALREADY_USED"
              /\ reg_last.chats_added = 0 /\ reg_last.chats_unchanged

\* A used code was presented from a channel other than the one that used it,
\* and was refused.
C9_Witness ==
    /\ reg_last # <<>>
    /\ reg_last.was_used
    /\ reg_last.used_by_before # 0
    /\ reg_last.used_by_before # reg_last.chat_id
    /\ reg_last.bound_to = {}
    /\ reg_last.error_code = "CODE_ALREADY_USED"
    /\ reg_created[reg_last.code] = 1

RowsOfCode(codes, rc) == {codes[k] : k \in {j \in 1..Len(codes) : codes[j].code = rc.code}}

\* C11: the state machine of a registration code.  In every step, a code
\* that is used stays in the table, stays used, keeps its time of use, and
\* its chat is the same or none (never another one); a code that is unused
\* and past expires_at is not marked used and creates no Destination; time
\* does not go back and no step changes a code's expiry or tenant, so used
\* and expired are both terminal.
C11_CodeStateMachine ==
    [][ /\ reg_now' >= reg_now
        /\ \A k \in 1..Len(reg_codes) :
             LET rc == reg_codes[k]
                 after == RowsOfCode(reg_codes', rc)
             IN /\ \A a \in after : /\ a.expires_at = rc.expires_at
                                     /\ a.company = rc.company
                /\ rc.is_used =>
                     /\ after # {}
                     /\ \A a \in after : /\ a.is_used
                                          /\ a.used_at = rc.used_at
                                          /\ a.used_by_chat \in {rc.used_by_chat, 0}
                /\ (~rc.is_used /\ reg_now > rc.expires_at) =>
                     /\ \A a \in after : ~a.is_used /\ a.used_by_chat = 0
                     /\ reg_created'[rc.code] = reg_created[rc.code]
      ]_vars

\* An unused code was presented after its expiry and was refused: it is still
\* unused and no Destination was created.
C11_Witness ==
    /\ reg_last # <<>>
    /\ reg_last.was_found /\ ~reg_last.was_used /\ reg_last.was_expired
    /\ reg_last.error_code = "CODE_EXPIRED"
    /\ ~reg_last.code_used_after
    /\ reg_last.chats_added = 0
    /\ reg_created[reg_last.code] = 0

(***************************************************************************)
(* Formatting of a metric record.                                          *)
(***************************************************************************)
\* The length values are cut to, `str_value[:100]`.
TruncLen == 100

Ellipsis == <<".", ".", ".">>
NewLine == "\n"
BoldOpen == <<"<","b",">">>
BoldClose == <<"<","/","b",">">>
EmpresaLabel == BoldOpen \o <<"E","m","p","r","e","s","a",":">> \o BoldClose \o <<" ">>

\* The text of n characters c.
Rep(c, n) == [i \in 1..n |-> c]

\* The priority emoji, one character of the text.
priority_emoji(priority) ==
    CASE priority = "critical" -> "emoji_rotating_light"
      [] priority = "high" -> "emoji_red_circle"
      [] priority = "medium" -> "emoji_yellow_circle"
      [] priority = "low" -> "emoji_green_circle"
      [] OTHER -> "emoji_bar_chart"

\* Mutant of str_value: values are rendered whole.
str_value_Whole(value) == value

\* The rendering of one value: `str_value[:100] + "..."` when longer.
str_value(value) ==
    IF Len(value) > TruncLen THEN SubSeq(value, 1, TruncLen) \o Ellipsis ELSE value

\* f"<b>{key}:</b> {str_value}"
FieldLabel(key) == BoldOpen \o key \o <<":">> \o BoldClose \o <<" ">>
field_line(key, value) == FieldLabel(key) \o str_value(value)

field_lines(row) == [i \in 1..Len(row) |-> field_line(row[i][1], row[i][2])]

RECURSIVE join(_, _)
\* "\n".join(lines)
join(sep, lines) ==
    IF lines = <<>> THEN <<>>
    ELSE IF Len(lines) = 1 THEN lines[1]
    ELSE lines[1] \o <<sep>> \o join(sep, Tail(lines))

\* PowerBIAlertService._basic_format
basic_format(definition, row) ==
    join(NewLine,
         << <<priority_emoji(definition.default_priority)>>
                \o BoldOpen \o definition.name \o BoldClose,
            EmpresaLabel \o definition.company_name,
            <<>> >> \o field_lines(row))

\* OpenAIFormatterService._fallback_format with the context built by
\* _format_with_openai.
fallback_format(definition, row) ==
    join(NewLine,
         << <<priority_emoji(definition.default_priority)>>
                \o BoldOpen \o definition.name \o BoldClose,
            <<>> >>
         \o (IF definition.company_name # <<>>
             THEN << EmpresaLabel \o definition.company_name >> ELSE <<>>)
         \o field_lines(row))

\* What the POST to the AI backend meets: a 200 answer, another status, or
\* an exception (timeout included).
ApiOutcomes == {"ok", "status", "raised"}

\* The stripped content of a 200 answer.
ApiContent == <<"o","k">>

\* OpenAIFormatterService.format_alert: one POST, the fallback unless 200.
format_alert(definition, row, outcome) ==
    [text |-> IF outcome = "ok" THEN ApiContent ELSE fallback_format(definition, row),
     calls |-> 1,
     via |-> IF outcome = "ok" THEN "openai" ELSE "fallback"]

\* PowerBIAlertDefinition.get_openai_template: the definition's own
\* template, else the default of the tenant's configuration, "" when the
\* tenant has none (tenant_config is <<>>).
get_openai_template(definition) ==
    IF definition.openai_template # <<>> THEN definition.openai_template
    ELSE IF definition.tenant_config = <<>> THEN <<>>
    ELSE definition.tenant_config[1].default_openai_template

\* PowerBIAlertService._format_with_openai
format_with_openai(definition, row, outcome) ==
    IF get_openai_template(definition) = <<>> /\ ~definition.openai_service
    THEN [text |-> basic_format(definition, row), calls |-> 0, via |-> "basic"]
    ELSE IF definition.openai_service
    THEN format_alert(definition, row, outcome)
    ELSE [text |-> basic_format(definition, row), calls |-> 0, via |-> "basic"]

(***************************************************************************)
(* Specification SpecFormat: one record formatted for one definition.      *)
(***************************************************************************)
FormatFields == {A_, ID_, Name_}

\* Texts of values: empty, short, exactly TruncLen long, and longer.
FormatValues ==
    { <<>>, <<"v">>, Rep("x", TruncLen), Rep("x", TruncLen) \o <<"y">> }

FormatPriorities == {"critical", "high", "medium", "low"}

\* The definition's own template with the tenant's configuration.
FormatTemplates ==
    { [own |-> <<>>, tenant |-> <<>>],
      [own |-> <<>>, tenant |-> <<[default_openai_template |-> <<>>]>>],
      [own |-> <<>>, tenant |-> <<[default_openai_template |-> <<"d">>]>>],
      [own |-> <<"t">>, tenant |-> <<[default_openai_template |-> <<"d">>]>>] }

InitFormat ==
    /\ \E priority \in FormatPriorities, template \in FormatTemplates,
          openai_service \in BOOLEAN :
         fmt_definition = [name |-> <<"D">>, company_name |-> <<"A">>,
                           default_priority |-> priority,
                           openai_template |-> template.own,
                           tenant_config |-> template.tenant,
                           openai_service |-> openai_service]
    /\ \E n \in 1..MaxFields :
         \E cs \in [1..n -> FormatFields], vals \in [1..n -> FormatValues] :
            /\ DistinctCols(cs)
            /\ fmt_row = RowOf(cs, vals)
    /\ fmt_out = <<>>
    /\ IdleDetect /\ IdleClassify /\ IdleTelegram /\ IdleMetric /\ IdleMail /\ IdleReg
    /\ IdleConcurrent /\ IdleHandler /\ IdleAll /\ IdleOps

\* _create_alert_instance, line 645: the message of the record is formatted.
FormatRecord ==
    /\ fmt_out = <<>>
    /\ \E outcome \in IF fmt_definition.openai_service THEN ApiOutcomes ELSE {"none"} :
         fmt_out' = format_with_openai(fmt_definition, fmt_row, outcome)
    /\ UNCHANGED <<fmt_definition, fmt_row, varsDetect, varsClassify, varsTelegram,
                   varsMetric, varsMail, varsReg, varsConcurrent,
                   varsHandler, varsAll, varsOps>>

NextFormat == FormatRecord

SpecFormat == InitFormat /\ [][NextFormat]_vars

(***************************************************************************)
(* Claims on formatting.                                                   *)
(***************************************************************************)
\* The lines of a text: the stretches between its newline characters.
SplitLines(text) ==
    LET nl == {i \in 1..Len(text) : text[i] = NewLine}
        nth(k) == IF k = 0 THEN 0
                  ELSE IF k > Cardinality(nl) THEN Len(text) + 1
                  ELSE CHOOSE i \in nl : Cardinality({j \in nl : j < i}) = k - 1
    IN [k \in 1..(Cardinality(nl) + 1) |-> SubSeq(text, nth(k - 1) + 1, nth(k) - 1)]

StartsWith(s, prefix) ==
    Len(s) >= Len(prefix) /\ SubSeq(s, 1, Len(prefix)) = prefix

\* The values rendered for the field key in the lines of a text.
RenderedFor(lines, key) ==
    {SubSeq(lines[l], Len(FieldLabel(key)) + 1, Len(lines[l])) :
        l \in {m \in 1..Len(lines) : StartsWith(lines[m], FieldLabel(key))}}

\* A record was formatted with no template and no AI backend.
FormattedWithoutBackend ==
    /\ fmt_out # <<>>
    /\ get_openai_template(fmt_definition) = <<>>
    /\ ~fmt_definition.openai_service

\* C12 as stated: with no template and no AI backend, formatting makes no
\* network call and returns non-empty text listing every field with its
\* value, and no rendered value is longer than 100 characters.
C12_FallbackAsClaimed ==
    FormattedWithoutBackend =>
        /\ fmt_out.calls = 0
        /\ fmt_out.text # <<>>
        /\ \A i \in 1..Len(fmt_row) :
             LET shown == RenderedFor(SplitLines(fmt_out.text), fmt_row[i][1])
             IN /\ shown # {}
                /\ \A r \in shown :
                     /\ Len(r) <= TruncLen
                     /\ r = SubSeq(fmt_row[i][2], 1, Min({TruncLen, Len(fmt_row[i][2])}))

\* C12: with no template and no AI backend, formatting makes no network call
\* and returns non-empty text that lists every field of the record, in the
\* record's order, with its value: the value itself when it has at most 100
\* characters, else its first 100 characters followed by "..." (so a
\* rendered value has at most 103 characters).
C12_FallbackFormat ==
    FormattedWithoutBackend =>
        /\ fmt_out.calls = 0
        /\ fmt_out.text # <<>>
        /\ LET lines == SplitLines(fmt_out.text)
           IN /\ Len(lines) = 3 + Len(fmt_row)
              /\ \A i \in 1..Len(fmt_row) :
                   LET v == fmt_row[i][2]
                       r == SubSeq(lines[3 + i], Len(FieldLabel(fmt_row[i][1])) + 1,
                                   Len(lines[3 + i]))
                   IN /\ StartsWith(lines[3 + i], FieldLabel(fmt_row[i][1]))
                      /\ Len(r) <= TruncLen + 3
                      /\ r = IF Len(v) <= TruncLen THEN v
                             ELSE SubSeq(v, 1, TruncLen) \o <<".", ".", ".">>

\* A record with a value longer than 100 characters was formatted with no
\* template and no AI backend.
C12_Witness ==
    /\ FormattedWithoutBackend
    /\ fmt_out.via = "basic"
    /\ \E i \in 1..Len(fmt_row) : Len(fmt_row[i][2]) > TruncLen

(***************************************************************************)
(* Specification SpecConcurrent: two runs for the same source at the same  *)
(* time, both fetching the same record, their steps interleaved.  The      *)
(* tables are the ones of the database; what a run read stays in its       *)
(* locals.                                                                 *)
(***************************************************************************)
Runs == {1, 2}

\* The record both metric runs fetch, and its id.
CcRow == RowOf(<<ID_, Name_>>, <<1, 1>>)
CcRecordId == get_record_id(CcRow, detect_id_field(CcRow))

CcLocal ==
    [existing_ids |-> {}, uids |-> {}, pk |-> 0, result |-> ZeroResult,
     processed_count |-> 0, failed_count |-> 0]

InitConcurrent ==
    /\ cc_kind \in {"metric", "mailbox"}
    /\ cc_pc = [p \in Runs |-> "start"]
    /\ cc_local = [p \in Runs |-> CcLocal]
    /\ IF cc_kind = "metric"
       THEN /\ pbi_chats \in MetricChats
            /\ telegram_config \in BOOLEAN
            /\ telegram_chats = <<>>
            /\ imap_mailbox = <<>>
       ELSE /\ pbi_chats = {}
            /\ \E t \in MailChatTables :
                 telegram_chats = t.chats /\ telegram_config = t.config
            /\ imap_mailbox = <<Msg1>>
    /\ telegram_messages = <<>> /\ telegram_outbox = <<>>
    /\ pbi_instances = <<>> /\ pbi_logs = <<>>
    /\ pbi_last_check = 0 /\ pbi_runs = 0 /\ pbi_result = <<>> /\ pbi_trace = <<>>
    /\ received_emails = <<>> /\ email_dispatch = <<>> /\ imap_logs = <<>>
    /\ imap_last_check = 0 /\ imap_runs = 0 /\ imap_result = <<>> /\ imap_trace = <<>>
    /\ IdleDetect /\ IdleClassify /\ IdleReg /\ IdleFormat /\ IdleHandler /\ IdleAll
    /\ IdleOps

\* What no step of the concurrent runs changes.
CcFrame ==
    UNCHANGED <<cc_kind, pbi_chats, telegram_config, telegram_chats, pbi_runs,
                pbi_result, pbi_trace, email_dispatch, imap_runs, imap_result,
                imap_trace, varsDetect, varsClassify, varsReg, varsFormat,
                varsHandler, varsAll, varsOps>>

Goto(p, pc) == cc_pc' = [cc_pc EXCEPT ![p] = pc]

\* _process_alert_definition, lines 561-565: the ids already in the table.
CcReadExisting(p) ==
    /\ cc_kind = "metric" /\ cc_pc[p] = "start"
    /\ cc_local' = [cc_local EXCEPT ![p].existing_ids =
                        {pbi_instances[i].powerbi_record_id : i \in 1..Len(pbi_instances)},
                     ![p].result.records_fetched = 1]
    /\ Goto(p, "row")
    /\ UNCHANGED <<pbi_instances, pbi_logs, pbi_last_check, telegram_messages,
                   telegram_outbox, imap_mailbox, received_emails, imap_logs,
                   imap_last_check>>
    /\ CcFrame

\* Lines 580-582: the record id is among the ids read.
CcSkip(p) ==
    /\ cc_kind = "metric" /\ cc_pc[p] = "row"
    /\ CcRecordId \in cc_local[p].existing_ids
    /\ cc_local' = [cc_local EXCEPT ![p].result.records_skipped = @ + 1]
    /\ Goto(p, "log")
    /\ UNCHANGED <<pbi_instances, pbi_logs, pbi_last_check, telegram_messages,
                   telegram_outbox, imap_mailbox, received_emails, imap_logs,
                   imap_last_check>>
    /\ CcFrame

\* Lines 584-589 with _create_alert_instance: the insert, refused by the
\* unique constraint when the other run inserted first.
CcCreate(p) ==
    /\ cc_kind = "metric" /\ cc_pc[p] = "row"
    /\ CcRecordId \notin cc_local[p].existing_ids
    /\ LET c == create_alert_instance(pbi_instances, CcRow, CcRecordId)
       IN IF c.raised
          THEN /\ cc_local' = [cc_local EXCEPT ![p].result.records_new = @ + 1,
                                               ![p].result.alerts_failed = @ + 1]
               /\ Goto(p, "log")
               /\ UNCHANGED pbi_instances
          ELSE /\ cc_local' = [cc_local EXCEPT ![p].result.records_new = @ + 1,
                                               ![p].result.alerts_created = @ + 1,
                                               ![p].pk = Len(c.instances)]
               /\ Goto(p, "send")
               /\ pbi_instances' = c.instances
    /\ UNCHANGED <<pbi_logs, pbi_last_check, telegram_messages, telegram_outbox,
                   imap_mailbox, received_emails, imap_logs, imap_last_check>>
    /\ CcFrame

\* Lines 591-595: _send_to_telegram on the instance this run created.
CcSend(p) ==
    /\ cc_kind = "metric" /\ cc_pc[p] = "send"
    /\ \E out \in [ActiveChatIds(pbi_chats) -> SendOutcomes] :
         LET r == send_to_telegram(pbi_instances,
                     [msgs |-> telegram_messages, outbox |-> telegram_outbox],
                     cc_local[p].pk, pbi_chats, telegram_config, out)
         IN /\ pbi_instances' = r.instances
            /\ telegram_messages' = r.tg.msgs
            /\ telegram_outbox' = r.tg.outbox
            /\ cc_local' = [cc_local EXCEPT
                    ![p].result.alerts_sent = @ + (IF r.ret THEN 1 ELSE 0),
                    ![p].result.alerts_failed = @ + (IF r.ret THEN 0 ELSE 1)]
    /\ Goto(p, "log")
    /\ UNCHANGED <<pbi_logs, pbi_last_check, imap_mailbox, received_emails,
                   imap_logs, imap_last_check>>
    /\ CcFrame

\* Lines 603-606: mark_as_checked and the log row of the run.
CcLog(p) ==
    /\ cc_kind = "metric" /\ cc_pc[p] = "log"
    /\ pbi_logs' = log_definition_processing(pbi_logs, cc_local[p].result, FALSE, "")
    /\ pbi_last_check' = pbi_last_check + 1
    /\ Goto(p, "done")
    /\ UNCHANGED <<cc_local, pbi_instances, telegram_messages, telegram_outbox,
                   imap_mailbox, received_emails, imap_logs, imap_last_check>>
    /\ CcFrame

\* get_unread_emails, lines 113-122: the UNSEEN search of the run.  Without
\* unread messages process_emails marks the configuration checked and
\* returns.
CcSearch(p) ==
    /\ cc_kind = "mailbox" /\ cc_pc[p] = "start"
    /\ LET unread == {uid \in 1..Len(imap_mailbox) : ~imap_mailbox[uid].seen}
       IN /\ cc_local' = [cc_local EXCEPT ![p].uids = unread]
          /\ IF unread = {}
             THEN Goto(p, "done") /\ imap_last_check' = imap_last_check + 1
             ELSE Goto(p, "fetch") /\ UNCHANGED imap_last_check
    /\ UNCHANGED <<imap_mailbox, received_emails, imap_logs, telegram_messages,
                   telegram_outbox, pbi_instances, pbi_logs, pbi_last_check>>
    /\ CcFrame

\* get_unread_emails, lines 124-150: FETCH (RFC822) of the messages found,
\* which sets \\Seen on them or not, as the server decides.
CcFetch(p) ==
    /\ cc_kind = "mailbox" /\ cc_pc[p] = "fetch"
    /\ \E fetch_sets_seen \in BOOLEAN :
         imap_mailbox' = [uid \in 1..Len(imap_mailbox) |->
                            [imap_mailbox[uid] EXCEPT !.seen =
                                @ \/ (fetch_sets_seen /\ uid \in cc_local[p].uids)]]
    /\ Goto(p, "process")
    /\ UNCHANGED <<cc_local, received_emails, imap_logs, imap_last_check,
                   telegram_messages, telegram_outbox, pbi_instances, pbi_logs,
                   pbi_last_check>>
    /\ CcFrame

\* process_emails, lines 323-329: _process_single_email on what was fetched.
CcProcess(p) ==
    /\ cc_kind = "mailbox" /\ cc_pc[p] = "process"
    /\ \E cls \in {classify_messages(imap_mailbox, <<>>, <<>>, MailKeywords)} :
       \E out \in [IF telegram_config THEN EmailAlertChats(telegram_chats, Tenant)
                    ELSE {} -> SendOutcomes] :
         LET st == process_messages(SetToSeq(cc_local[p].uids),
                      [classified |-> cls, chats |-> telegram_chats,
                       config |-> telegram_config, company |-> Tenant],
                      out,
                      [mailbox |-> imap_mailbox, emails |-> received_emails,
                       tg |-> [msgs |-> telegram_messages, outbox |-> telegram_outbox],
                       processed_count |-> 0, failed_count |-> 0, trace |-> <<>>])
         IN /\ imap_mailbox' = st.mailbox
            /\ received_emails' = st.emails
            /\ telegram_messages' = st.tg.msgs
            /\ telegram_outbox' = st.tg.outbox
            /\ cc_local' = [cc_local EXCEPT ![p].processed_count = st.processed_count,
                                            ![p].failed_count = st.failed_count]
    /\ Goto(p, "log")
    /\ UNCHANGED <<imap_logs, imap_last_check, pbi_instances, pbi_logs, pbi_last_check>>
    /\ CcFrame

\* process_emails, lines 331-345: the configuration is marked checked and
\* the run is logged.
CcMailLog(p) ==
    /\ cc_kind = "mailbox" /\ cc_pc[p] = "log"
    /\ imap_last_check' = imap_last_check + 1
    /\ imap_logs' = Append(imap_logs,
                       [status |-> IF cc_local[p].failed_count = 0 THEN "success"
                                   ELSE "warning",
                        emails_processed |-> cc_local[p].processed_count,
                        emails_failed |-> cc_local[p].failed_count])
    /\ Goto(p, "done")
    /\ UNCHANGED <<cc_local, imap_mailbox, received_emails, telegram_messages,
                   telegram_outbox, pbi_instances, pbi_logs, pbi_last_check>>
    /\ CcFrame

NextConcurrent ==
    \E p \in Runs :
        \/ CcReadExisting(p) \/ CcSkip(p) \/ CcCreate(p) \/ CcSend(p) \/ CcLog(p)
        \/ CcSearch(p) \/ CcFetch(p) \/ CcProcess(p) \/ CcMailLog(p)

SpecConcurrent == InitConcurrent /\ [][NextConcurrent]_vars

(***************************************************************************)
(* Claims on concurrent runs.                                              *)
(***************************************************************************)
\* The persisted records of the dedup key both runs fetched.
CcPersisted ==
    IF cc_kind = "metric"
    THEN {i \in 1..Len(pbi_instances) : pbi_instances[i].powerbi_record_id = CcRecordId}
    ELSE RowsWith(Triple(Msg1))

CcKey == IF cc_kind = "metric" THEN CcRecordId ELSE Triple(Msg1)

\* At most one record of the key is persisted and at most one notification
\* about it reached each chat.
AtMostOnce ==
    /\ Cardinality(CcPersisted) <= 1
    /\ \A c \in ChatIds : Cardinality(Deliveries(CcKey, c)) <= 1

C13_MetricRuns == cc_kind = "metric" => AtMostOnce

C13_MailboxRuns == cc_kind = "mailbox" => AtMostOnce

\* C13: under any interleaving of two concurrent runs that fetch the same
\* record for the same source, mailbox or metric, at most one record is
\* persisted for the dedup key and at most one notification is dispatched
\* for it.
C13_ConcurrentRuns == C13_MetricRuns /\ C13_MailboxRuns

(***************************************************************************)
(* Specification SpecHandler: runs of `with IMAPEmailHandler(config) as    *)
(* handler: handler.process_emails()` on one mailbox, the connection, the  *)
(* search and the fetches succeeding or not.                               *)
(***************************************************************************)
\* connect(): it succeeds, the IMAP4 constructor raises (self.connection
\* stays None), or login raises (self.connection is set, not authenticated).
\* __enter__ drops what connect returns.
ConnectOutcomes == {"ok", "no_connection", "login_failed"}

\* SEARCH UNSEEN: status OK, another status, or select/search raise.
SearchOutcomes == {"ok", "not_ok", "raised"}

\* _fetch_email_data: the parsed message, or None (status not OK, or an
\* exception while parsing, which it catches).
FetchOutcomes == {"ok", "none"}

\* email_ids[-n:] for n >= 1
LastN(seq, n) == IF Len(seq) > n THEN SubSeq(seq, Len(seq) - n + 1, Len(seq)) ELSE seq

\* get_unread_emails, lines 110-131: the message ids of the batch.
select_unread(mailbox, connect, search, max_emails_per_check) ==
    IF connect = "no_connection" THEN <<>>
    ELSE IF connect = "login_failed" \/ search # "ok" THEN <<>>
    ELSE LastN(SetToSeq({uid \in 1..Len(mailbox) : ~mailbox[uid].seen}),
               max_emails_per_check)

\* The number process_emails_for_config reports as processed when
\* process_emails returned True.
ProcessedWhenTrue == 47

\* IMAPService.process_emails_for_config, lines 618-641: what it reports for
\* the value process_emails returned, a boolean and never a dict.
process_emails_for_config(result) ==
    [status |-> "success",
     processed |-> IF result THEN ProcessedWhenTrue ELSE 0,
     failed |-> 0]

HandlerChatTables ==
    { [chats |-> <<>>, config |-> TRUE],
      [chats |-> <<ChatOf(1, Tenant, TRUE)>>, config |-> TRUE] }

InitHandler ==
    /\ \E b \in MailBoxes : imap_mailbox = b.mailbox /\ rules = b.rules
    /\ \E t \in HandlerChatTables : telegram_chats = t.chats /\ telegram_config = t.config
    /\ settings_kw = MailKeywords
    /\ email_data = <<>> /\ classified = <<>>
    /\ telegram_messages = <<>> /\ telegram_outbox = <<>>
    /\ received_emails = <<>> /\ email_dispatch = <<>> /\ imap_logs = <<>>
    /\ imap_last_check = 0 /\ imap_runs = 0 /\ imap_result = <<>> /\ imap_trace = <<>>
    /\ imap_run = <<>>
    /\ IdleDetect /\ IdleMetric /\ IdleReg /\ IdleFormat /\ IdleConcurrent /\ IdleAll
    /\ IdleOps

\* One run of the handler as process_emails_for_config makes it: connect,
\* process_emails, disconnect.
RunHandler ==
    /\ imap_runs < MaxRuns
    /\ imap_runs' = imap_runs + 1
    /\ imap_last_check' = imap_runs + 1
    /\ \E connect \in ConnectOutcomes, max_emails_per_check \in {1, 2} :
       \E search \in IF connect = "ok" THEN SearchOutcomes ELSE {"none"} :
       \E selected \in {select_unread(imap_mailbox, connect, search, max_emails_per_check)} :
       \E fetch \in [Range(selected) -> FetchOutcomes] :
         LET emails == SelectSeq(selected, LAMBDA uid : fetch[uid] = "ok")
             fresh == {uid \in Range(emails) :
                          ~ExistingEmail(received_emails, imap_mailbox[uid])}
             matching == EmailAlertChats(telegram_chats, Tenant)
             logs0 == IF connect = "ok" THEN imap_logs
                      ELSE Append(imap_logs, [status |-> "error",
                                              emails_processed |-> 0,
                                              emails_failed |-> 0])
             run(st, logs) ==
                 [connect |-> connect, search |-> search,
                  selected |-> Range(selected), fetched |-> Range(emails),
                  logs_added |-> Len(logs) - Len(imap_logs),
                  statuses |-> {logs[k].status : k \in (Len(imap_logs) + 1)..Len(logs)},
                  processed_count |-> st.processed_count,
                  failed_count |-> st.failed_count,
                  returned |-> TRUE,
                  report |-> process_emails_for_config(TRUE)]
         IN IF emails = <<>>
            THEN /\ imap_logs' = logs0
                 /\ imap_result' = [processed_count |-> 0, failed_count |-> 0,
                                    returned |-> TRUE]
                 /\ imap_trace' = <<>>
                 /\ imap_run' = run([processed_count |-> 0, failed_count |-> 0], logs0)
                 /\ UNCHANGED <<imap_mailbox, received_emails, telegram_messages,
                                telegram_outbox>>
            ELSE
            \E q \in order_by_order_name(rules) :
            \E cls \in {classify_messages(imap_mailbox, rules, q, settings_kw)} :
            \E fetch_sets_seen \in BOOLEAN :
            \E out \in [IF telegram_config /\ fresh # {} THEN matching ELSE {} ->
                            SendOutcomes] :
              LET st == process_messages(emails,
                           [classified |-> cls, chats |-> telegram_chats,
                            config |-> telegram_config, company |-> Tenant],
                           out,
                           [mailbox |-> [uid \in 1..Len(imap_mailbox) |->
                                           [imap_mailbox[uid] EXCEPT !.seen =
                                               @ \/ (fetch_sets_seen /\ uid \in Range(emails))]],
                            emails |-> received_emails,
                            tg |-> [msgs |-> telegram_messages,
                                    outbox |-> telegram_outbox],
                            processed_count |-> 0, failed_count |-> 0,
                            trace |-> <<>>])
                  logs == Append(logs0,
                             [status |-> IF st.failed_count = 0 THEN "success"
                                         ELSE "warning",
                              emails_processed |-> st.processed_count,
                              emails_failed |-> st.failed_count])
              IN /\ imap_mailbox' = st.mailbox
                 /\ received_emails' = st.emails
                 /\ telegram_messages' = st.tg.msgs
                 /\ telegram_outbox' = st.tg.outbox
                 /\ imap_logs' = logs
                 /\ imap_result' = [processed_count |-> st.processed_count,
                                    failed_count |-> st.failed_count,
                                    returned |-> TRUE]
                 /\ imap_trace' = st.trace
                 /\ imap_run' = run(st, logs)
    /\ UNCHANGED <<telegram_chats, telegram_config, email_dispatch, varsClassify,
                   varsDetect, varsMetric, varsReg, varsFormat, varsConcurrent,
                   varsAll, varsOps>>

NextHandler == RunHandler

SpecHandler == InitHandler /\ [][NextHandler]_vars

(***************************************************************************)
(* Claims on the run log and on the handling of errors in a run.           *)
(***************************************************************************)
\* Every metric definition run so far wrote one log row.
C14_MetricPath == Len(pbi_logs) = pbi_runs

\* The last mailbox handler run wrote one log row.
C14_MailboxPath == imap_run # <<>> => imap_run.logs_added = 1

\* C14: every invocation of the pipeline for one source configuration, a
\* mailbox handler run or a metric definition run, writes exactly one
\* run-log entry for it, including when the fetch returns no records and
\* when the adapter raises.
C14_OneLogPerRun == C14_MetricPath /\ C14_MailboxPath

\* The rows of the last metric run that ended in a failure: the instance
\* could not be created, or it was created and ended failed.  A row whose
\* instance ended ignored, for want of a destination, is not among them.
FailedRows ==
    {i \in 1..Len(pbi_trace) :
        /\ pbi_trace[i].counted = "failed"
        /\ (pbi_trace[i].created =>
                InstanceOf(pbi_trace[i].record_id).status # "ignored")}

\* C15: the status of the log entry of a metric run is error if the run
\* raised, otherwise warning if at least one record of the run failed,
\* otherwise success; a record whose alert ended ignored because no
\* destination is configured is not a failure.
C15_LogStatus ==
    pbi_result # <<>> =>
        pbi_logs[Len(pbi_logs)].status =
            IF pbi_result.raised THEN "error"
            ELSE IF FailedRows # {} THEN "warning"
            ELSE "success"

\* C16: when connecting or logging in to the mailbox fails, the failure is
\* fatal for the run: no record is processed, a run-log entry with status
\* error is written, and the run reports failure to its caller (neither
\* process_emails nor process_emails_for_config reports success).
C16_ConnectionFailure ==
    (imap_run # <<>> /\ imap_run.connect # "ok") =>
        /\ imap_run.selected = {}
        /\ imap_run.processed_count = 0 /\ imap_run.failed_count = 0
        /\ "error" \in imap_run.statuses
        /\ ~imap_run.returned
        /\ imap_run.report.status # "success"

\* The first three clauses of C16: nothing is processed and an error entry
\* is logged.
C16_FatalAndLogged ==
    (imap_run # <<>> /\ imap_run.connect # "ok") =>
        /\ imap_run.selected = {}
        /\ imap_run.processed_count = 0 /\ imap_run.failed_count = 0
        /\ imap_run.statuses = {"error"}

\* C17: in a mailbox run, a failure while fetching, parsing or processing
\* one message does not keep the other messages of the batch from being
\* attempted, and when the run ends every message id selected for the batch
\* has been counted exactly once, as processed or as failed.
C17_EveryMessageCounted ==
    imap_run # <<>> =>
        /\ imap_run.processed_count + imap_run.failed_count
              = Cardinality(imap_run.selected)
        /\ {imap_trace[i].uid : i \in 1..Len(imap_trace)} = imap_run.fetched

\* The part of C17 on the messages that were fetched: each is attempted and
\* counted once.
C17_FetchedCounted ==
    imap_run # <<>> =>
        /\ imap_run.processed_count + imap_run.failed_count
              = Cardinality(imap_run.fetched)
        /\ {imap_trace[i].uid : i \in 1..Len(imap_trace)} = imap_run.fetched
        /\ Len(imap_trace) = Cardinality(imap_run.fetched)

(***************************************************************************)
(* Specification SpecAll: invocations of process_all_pending_alerts over   *)
(* the table of alert definitions, as time passes.                         *)
(***************************************************************************)
\* What _process_alert_definition meets before the rows are there: the
\* query answers, the token cannot be obtained (PowerBIAuthError), or the
\* query fails (PowerBIQueryError).
QueryOutcomes == {"ok", "auth_error", "query_error"}

\* PowerBIAlertDefinition.is_due_for_check, with an interval of one unit.
is_due_for_check(d, now) == d.last_check = 0 \/ now - d.last_check >= 1

\* _process_alert_definition on the definition d: query is what the query
\* meets, sends what the sends for each new record id meet.
process_alert_definition(d, tg, config, now, query, sends) ==
    IF query # "ok"
    THEN [raised |-> TRUE, tg |-> tg, result |-> ZeroResult,
          d |-> [d EXCEPT !.logs = log_definition_processing(@, ZeroResult, TRUE, "error")]]
    ELSE IF d.rows = <<>>
    THEN [raised |-> FALSE, tg |-> tg, result |-> ZeroResult,
          d |-> [d EXCEPT !.last_check = now,
                          !.logs = log_definition_processing(@, ZeroResult, FALSE, "")]]
    ELSE LET existing_ids == {d.instances[k].powerbi_record_id :
                                 k \in 1..Len(d.instances)}
             ids == record_ids(d.rows, detect_id_field(d.rows[1]))
             st == process_rows(d.rows, ids, 1,
                      [existing_ids |-> existing_ids, chats |-> d.chats,
                       config |-> config],
                      sends,
                      [instances |-> d.instances, tg |-> tg,
                       result |-> [ZeroResult EXCEPT !.records_fetched = Len(d.rows)],
                       trace |-> <<>>])
         IN [raised |-> FALSE, tg |-> st.tg, result |-> st.result,
             d |-> [d EXCEPT !.instances = st.instances,
                             !.last_check = now,
                             !.logs = log_definition_processing(@, st.result, FALSE, "")]]

ZeroResults ==
    [total_definitions_checked |-> 0, total_definitions_processed |-> 0,
     total_alerts_created |-> 0, total_alerts_sent |-> 0,
     total_alerts_failed |-> 0, errors |-> <<>>]

RECURSIVE process_definitions_StopAtError(_, _, _, _, _, _)
\* Mutant of process_definitions: the first definition that raises ends the
\* loop.
process_definitions_StopAtError(j, config, now, query, sends, st) ==
    IF j > Len(st.defs) THEN st
    ELSE LET d == st.defs[j]
         IN IF ~(d.is_active /\ is_due_for_check(d, now))
            THEN process_definitions_StopAtError(j + 1, config, now, query, sends, st)
            ELSE LET r == process_alert_definition(d, st.tg, config, now, query[j], sends[j])
                 IN IF r.raised
                    THEN [st EXCEPT !.defs[j] = r.d,
                                    !.attempts[j] = @ + 1,
                                    !.results.errors = Append(@, d.name)]
                    ELSE process_definitions_StopAtError(j + 1, config, now, query, sends,
                            [st EXCEPT !.defs[j] = r.d, !.tg = r.tg,
                                       !.attempts[j] = @ + 1,
                                       !.results.total_definitions_processed = @ + 1,
                                       !.results.total_alerts_created = @ + r.result.alerts_created,
                                       !.results.total_alerts_sent = @ + r.result.alerts_sent,
                                       !.results.total_alerts_failed = @ + r.result.alerts_failed])

RECURSIVE process_definitions(_, _, _, _, _, _)
\* process_all_pending_alerts, lines 459-493: the loop over the active
\* definitions, from the j-th on.
process_definitions(j, config, now, query, sends, st) ==
    IF j > Len(st.defs) THEN st
    ELSE LET d == st.defs[j]
         IN IF ~(d.is_active /\ is_due_for_check(d, now))
            THEN process_definitions(j + 1, config, now, query, sends, st)
            ELSE LET r == process_alert_definition(d, st.tg, config, now, query[j], sends[j])
                 IN process_definitions(j + 1, config, now, query, sends,
                       IF r.raised
                       THEN [st EXCEPT !.defs[j] = r.d,
                                       !.attempts[j] = @ + 1,
                                       !.results.errors = Append(@, d.name)]
                       ELSE [st EXCEPT !.defs[j] = r.d, !.tg = r.tg,
                                       !.attempts[j] = @ + 1,
                                       !.results.total_definitions_processed = @ + 1,
                                       !.results.total_alerts_created = @ + r.result.alerts_created,
                                       !.results.total_alerts_sent = @ + r.result.alerts_sent,
                                       !.results.total_alerts_failed = @ + r.result.alerts_failed])

\* _log_global_processing: the status of the global log row.
global_log_status(results) ==
    IF results.total_definitions_processed = 0 THEN "info"
    ELSE IF results.errors # <<>> THEN "warning"
    ELSE "success"

DefinitionOf(name, is_active, rows, chats) ==
    [name |-> name, is_active |-> is_active, rows |-> rows, chats |-> chats,
     instances |-> <<>>, logs |-> <<>>, last_check |-> 0]

\* A definition: whether it is active, the rows its query returns, its
\* chats.
DefinitionKinds ==
    { [is_active |-> FALSE, rows |-> <<CcRow>>,
       chats |-> {[chat_id |-> 1, is_active |-> TRUE]}],
      [is_active |-> TRUE, rows |-> <<>>, chats |-> {}],
      [is_active |-> TRUE, rows |-> <<CcRow>>,
       chats |-> {[chat_id |-> 1, is_active |-> TRUE]}] }

InitAll ==
    /\ \E n \in 1..MaxDefs :
       \E kind \in [1..n -> DefinitionKinds] :
         pa_defs = [j \in 1..n |-> DefinitionOf(j, kind[j].is_active, kind[j].rows,
                                               kind[j].chats)]
    /\ pa_now = 1
    /\ pa_last = <<>>
    /\ telegram_config = TRUE /\ telegram_chats = <<>>
    /\ telegram_messages = <<>> /\ telegram_outbox = <<>>
    /\ IdleDetect /\ IdleClassify /\ IdleMetric /\ IdleMail /\ IdleReg
    /\ IdleFormat /\ IdleConcurrent /\ IdleHandler /\ IdleOps

\* The send outcomes of definition j: one outcome for its chat, for each of
\* its record ids.
SendsOf(d, o) ==
    IF d.rows = <<>> THEN <<>>
    ELSE [id \in Range(record_ids(d.rows, detect_id_field(d.rows[1]))) |->
             [c \in ActiveChatIds(d.chats) |-> o]]

\* Whether a run of definition d with this query outcome sends anything.
Sends(d, query) ==
    /\ query = "ok" /\ d.rows # <<>> /\ ActiveChatIds(d.chats) # {}
    /\ d.instances = <<>>

\* One invocation of process_all_pending_alerts, which the scheduler makes
\* once in a check interval.
ProcessAllPendingAlerts ==
    /\ IF pa_last = <<>> THEN TRUE ELSE pa_last.at < pa_now
    /\ LET n == Len(pa_defs)
           due == {j \in 1..n : pa_defs[j].is_active /\ is_due_for_check(pa_defs[j], pa_now)}
           tg == [msgs |-> telegram_messages, outbox |-> telegram_outbox]
       IN \E query \in [due -> QueryOutcomes] :
          \E o \in [{j \in due : Sends(pa_defs[j], query[j])} -> {"ok", "fail"}] :
            /\ \E sends \in {[j \in due |->
                                SendsOf(pa_defs[j], IF j \in DOMAIN o THEN o[j] ELSE "ok")]} :
               \E st \in {process_definitions(1, telegram_config, pa_now, query, sends,
                              [defs |-> pa_defs, tg |-> tg,
                               attempts |-> [j \in 1..n |-> 0],
                               results |-> [ZeroResults EXCEPT
                                   !.total_definitions_checked =
                                       Cardinality({j \in 1..n : pa_defs[j].is_active})]])} :
                 /\ pa_defs' = st.defs
                 /\ telegram_messages' = st.tg.msgs
                 /\ telegram_outbox' = st.tg.outbox
                 /\ pa_last' =
                      [at |-> pa_now, due |-> due, query |-> query,
                       attempts |-> st.attempts,
                       results |-> st.results,
                       global_status |-> global_log_status(st.results),
                       before |-> pa_defs,
                       alone |-> [j \in 1..n |->
                                   IF j \in due
                                   THEN process_alert_definition(pa_defs[j], tg,
                                            telegram_config, pa_now, query[j], sends[j]).d
                                   ELSE pa_defs[j]]]
    /\ UNCHANGED <<pa_now, telegram_config, telegram_chats, varsDetect, varsClassify,
                   varsMetric, varsMail, varsReg, varsFormat, varsConcurrent,
                   varsHandler, varsOps>>

\* Time passes between two invocations: one check interval.
Elapse ==
    /\ pa_now < MaxTime
    /\ pa_last # <<>>
    /\ pa_last.at = pa_now
    /\ pa_now' = pa_now + 1
    /\ UNCHANGED <<pa_defs, pa_last, varsTelegram, varsDetect, varsClassify,
                   varsMetric, varsMail, varsReg, varsFormat, varsConcurrent,
                   varsHandler, varsOps>>

NextAll == ProcessAllPendingAlerts \/ Elapse

SpecAll == InitAll /\ [][NextAll]_vars

(***************************************************************************)
(* Claims on process_all_pending_alerts.                                   *)
(***************************************************************************)
\* C18: in an invocation of process_all_pending_alerts every due definition
\* is attempted exactly once and no other is attempted; an authentication or
\* query failure of one definition is recorded for that definition only (an
\* error log row of its own and its name in the errors of the invocation),
\* and every due definition ends as it would have ended processed alone,
\* whatever happened to the others.
C18_Isolation ==
    pa_last # <<>> =>
        /\ \A j \in 1..Len(pa_defs) :
             /\ pa_last.attempts[j] = IF j \in pa_last.due THEN 1 ELSE 0
             /\ pa_defs[j] = pa_last.alone[j]
             /\ j \notin pa_last.due => pa_defs[j] = pa_last.before[j]
             /\ (j \in pa_last.due /\ pa_last.query[j] # "ok") =>
                  /\ Len(pa_defs[j].logs) = Len(pa_last.before[j].logs) + 1
                  /\ pa_defs[j].logs[Len(pa_defs[j].logs)].status = "error"
                  /\ pa_defs[j].instances = pa_last.before[j].instances
        /\ Range(pa_last.results.errors) =
              {pa_defs[j].name : j \in {k \in pa_last.due : pa_last.query[k] # "ok"}}
        /\ Len(pa_last.results.errors) =
              Cardinality({k \in pa_last.due : pa_last.query[k] # "ok"})
        /\ pa_last.results.total_definitions_processed =
              Cardinality({k \in pa_last.due : pa_last.query[k] = "ok"})

\* Two definitions were due, the first failed on its query or its
\* authentication, and the second was processed and created its alert.
C18_Witness ==
    /\ pa_last # <<>>
    /\ Len(pa_defs) >= 2
    /\ {1, 2} \subseteq pa_last.due
    /\ pa_last.query[1] # "ok" /\ pa_last.query[2] = "ok"
    /\ pa_last.attempts[2] = 1
    /\ Len(pa_defs[2].instances) = 1
    /\ pa_last.results.errors = <<1>>

(***************************************************************************)
(* The polling bot: run_telegram_bot, Command._run_polling.  The Bot API   *)
(* numbers the updates it receives with increasing update_ids; getUpdates  *)
(* with an offset forgets the updates below it and returns the ones from   *)
(* it on, in increasing order; without an offset it returns the updates    *)
(* it has not forgotten, from the earliest.                                *)
(***************************************************************************)
\* offset = None, line 73: the first getUpdates of an execution sends none.
NoOffset == 0

\* What an update makes _process_update do: handle a command, or meet an
\* exception on the way (which its except clause logs).
UpdateKinds == {"command", "raises"}

\* What requests.get(".../getUpdates") comes back with, lines 96-122 and 148-157.
ResponseOutcomes == {"ok", "status_error", "not_ok", "timeout"}

\* The Bot API's side of getUpdates(offset): what it has forgotten after
\* the call, and the update_ids of the result, at most GetUpdatesLimit.
get_updates(updates, confirmed, offset) ==
    LET forgotten == IF offset # NoOffset /\ offset - 1 > confirmed
                     THEN offset - 1 ELSE confirmed
        first == forgotten + 1
        last == IF Len(updates) < forgotten + GetUpdatesLimit
                THEN Len(updates) ELSE forgotten + GetUpdatesLimit
    IN [confirmed |-> forgotten,
        result |-> [k \in 1..(IF last >= first THEN last - first + 1 ELSE 0) |->
                       forgotten + k]]

\* _process_update, lines 162-396: the whole body is inside try/except
\* Exception, so the call returns normally whatever the update did.
process_update(kind) ==
    IF kind = "raises" THEN "logged" ELSE "done"

\* offset = update["update_id"] + 1, line 126, assigned before the update
\* is handled.
advance_offset(offset, update_id, outcome) == update_id + 1

\* for update in updates, lines 125-127.
RECURSIVE handle_updates(_, _, _, _)
handle_updates(batch, i, updates, st) ==
    IF i > Len(batch) THEN st
    ELSE LET id == batch[i]
             outcome == process_update(updates[id])
         IN handle_updates(batch, i + 1, updates,
                [offset |-> advance_offset(st.offset, id, outcome),
                 handled |-> [st.handled EXCEPT ![id] = @ + 1],
                 run |-> Append(st.run, id),
                 outcomes |-> Append(st.outcomes, outcome)])

InitBot ==
    /\ tg_updates = <<>> /\ tg_confirmed = 0
    /\ bot_pc = "stopped" /\ bot_daemon = FALSE /\ bot_offset = NoOffset
    /\ bot_handled = <<>> /\ bot_run = <<>> /\ bot_starts = 0 /\ bot_last = <<>>
    /\ telegram_config = TRUE /\ telegram_chats = <<>>
    /\ telegram_messages = <<>> /\ telegram_outbox = <<>>
    /\ IdleDetect /\ IdleClassify /\ IdleMetric /\ IdleMail /\ IdleReg
    /\ IdleFormat /\ IdleConcurrent /\ IdleHandler /\ IdleAll /\ IdleLife
    /\ IdleLate

BotFrame ==
    UNCHANGED <<varsTelegram, varsDetect, varsClassify, varsMetric, varsMail,
                varsReg, varsFormat, varsConcurrent, varsHandler, varsAll,
                varsLife, varsLate>>

\* Somebody writes to the bot: the Bot API stores one more update.
UserSends ==
    /\ Len(tg_updates) < MaxUpdates
    /\ \E kind \in UpdateKinds :
         /\ tg_updates' = Append(tg_updates, kind)
         /\ bot_handled' = Append(bot_handled, 0)
    /\ UNCHANGED <<tg_confirmed, bot_pc, bot_daemon, bot_offset, bot_run,
                   bot_starts, bot_last>>
    /\ BotFrame

\* The command is started, with or without --daemon: handle, lines 31-63,
\* enters _run_polling, which starts with offset = None.
StartPolling ==
    /\ bot_pc = "stopped"
    /\ bot_starts < MaxStarts
    /\ telegram_config
    /\ \E daemon_mode \in BOOLEAN : bot_daemon' = daemon_mode
    /\ bot_pc' = "polling"
    /\ bot_offset' = NoOffset
    /\ bot_run' = <<>>
    /\ bot_starts' = bot_starts + 1
    /\ UNCHANGED <<tg_updates, tg_confirmed, bot_handled, bot_last>>
    /\ BotFrame

\* One turn of the while loop, lines 94-157: getUpdates with the current
\* offset, then every update of the result in turn; without --daemon the
\* loop is left after the first answered call.
PollOnce ==
    /\ bot_pc = "polling"
    /\ \E response \in ResponseOutcomes :
         LET api == get_updates(tg_updates, tg_confirmed, bot_offset)
             batch == IF response = "ok" THEN api.result ELSE <<>>
             st == handle_updates(batch, 1, tg_updates,
                       [offset |-> bot_offset, handled |-> bot_handled,
                        run |-> bot_run, outcomes |-> <<>>])
         IN /\ tg_confirmed' = IF response \in {"ok", "timeout"}
                               THEN api.confirmed ELSE tg_confirmed
            /\ bot_offset' = st.offset
            /\ bot_handled' = st.handled
            /\ bot_run' = st.run
            /\ bot_pc' = IF response = "ok" /\ ~bot_daemon THEN "stopped"
                         ELSE "polling"
            /\ bot_last' = [response |-> response,
                            offset_sent |-> bot_offset,
                            handled_before |-> {id \in DOMAIN bot_handled :
                                                  bot_handled[id] > 0},
                            run_before |-> bot_run,
                            batch |-> batch,
                            outcomes |-> st.outcomes,
                            offset_after |-> st.offset]
    /\ UNCHANGED <<tg_updates, bot_daemon, bot_starts>>
    /\ BotFrame

\* Ctrl+C, lines 151-152 and 159-160: KeyboardInterrupt ends the loop.
KeyboardInterrupt ==
    /\ bot_pc = "polling"
    /\ bot_pc' = "stopped"
    /\ UNCHANGED <<tg_updates, tg_confirmed, bot_daemon, bot_offset, bot_handled,
                   bot_run, bot_starts, bot_last>>
    /\ BotFrame

NextBot == UserSends \/ StartPolling \/ PollOnce \/ KeyboardInterrupt

SpecBot == InitBot /\ [][NextBot]_vars

(***************************************************************************)
(* Claims on the poll loop.                                                *)
(***************************************************************************)
\* Inside one execution of the loop: the update_ids it handled are below
\* the offset and were handled once by it, a call never lowers the offset,
\* and every update of a result is handled whether or not it raised.
C19_WithinOneExecution ==
    /\ \A i \in 1..Len(bot_run) : bot_run[i] < bot_offset
    /\ \A i, j \in 1..Len(bot_run) : bot_run[i] = bot_run[j] => i = j
    /\ bot_last # <<>> =>
         /\ bot_last.offset_after >= bot_last.offset_sent
         /\ \A i \in 1..Len(bot_last.run_before) :
              bot_last.run_before[i] < bot_last.offset_sent
         /\ Len(bot_last.outcomes) = Len(bot_last.batch)

\* C19: once updates have been handled, a getUpdates call uses an offset
\* greater than the highest update_id handled, and no update is ever handled
\* twice, also when handling an update raised an exception.
C19_PollOffset ==
    /\ \A id \in DOMAIN bot_handled : bot_handled[id] <= 1
    /\ bot_last # <<>> =>
         \A id \in bot_last.handled_before :
            bot_last.offset_sent # NoOffset /\ bot_last.offset_sent > id

(***************************************************************************)
(* The life of an alert record: the metric pipeline, the mailbox pipeline, *)
(* the saving of a ReceivedEmail with its post_save receiver, and the      *)
(* retry task, on the tables of one tenant.                                *)
(***************************************************************************)
\* A variant of the retry task's queryset that takes every instance.
failed_instances_All(insts) == 1..Len(insts)

\* PowerBIAlertInstance.objects.filter(status="failed",
\* alert_definition__is_active=True), tasks.py lines 346-349, for the
\* instances of an active definition.
failed_instances(insts) == {k \in 1..Len(insts) : insts[k].status = "failed"}

RECURSIVE retry_instances(_, _, _, _, _)
\* retry_failed_alerts, lines 351-362: _send_to_telegram on each instance of
\* the queryset.  out[pk] gives what the sends for that instance meet.
retry_instances(pks, chats, config, out, st) ==
    IF pks = <<>> THEN st
    ELSE LET pk == Head(pks)
             s == send_to_telegram(st.instances, st.tg, pk, chats, config, out[pk])
         IN retry_instances(Tail(pks), chats, config, out,
               [instances |-> s.instances,
                tg |-> s.tg,
                result |-> [st.result EXCEPT
                               !.total_retried = @ + 1,
                               !.total_sent = @ + (IF s.ret THEN 1 ELSE 0),
                               !.total_failed = @ + (IF s.ret THEN 0 ELSE 1)]])

\* The runs of the pipelines and of the retry task and the saved emails
\* share the bound on the runs.
LifeRuns == pbi_runs + imap_runs + retry_runs + Len(received_emails)

\* The definition has no chat or one active chat; the tenant has one chat for
\* email alerts, a mailbox of two messages and a rule that matches the first.
InitLife ==
    /\ pbi_chats \in {{}, {[chat_id |-> 1, is_active |-> TRUE]}}
    /\ telegram_chats = <<ChatOf(1, Tenant, TRUE)>> /\ telegram_config = TRUE
    /\ imap_mailbox = <<Msg1, Msg2>> /\ rules = MailRule
    /\ settings_kw = MailKeywords
    /\ email_data = <<>> /\ classified = <<>>
    /\ telegram_messages = <<>> /\ telegram_outbox = <<>>
    /\ pbi_instances = <<>> /\ pbi_logs = <<>>
    /\ pbi_last_check = 0 /\ pbi_runs = 0 /\ pbi_result = <<>> /\ pbi_trace = <<>>
    /\ received_emails = <<>> /\ email_dispatch = <<>> /\ imap_logs = <<>>
    /\ imap_last_check = 0 /\ imap_runs = 0 /\ imap_result = <<>> /\ imap_trace = <<>>
    /\ retry_runs = 0 /\ retry_result = <<>>
    /\ IdleDetect /\ IdleReg /\ IdleFormat /\ IdleConcurrent /\ IdleHandler /\ IdleAll
    /\ IdleBot /\ IdleLate

\* The values of the argument max_retries the task is called with.
MaxRetriesInputs == {1}

\* One run of the task retry_failed_alerts(max_retries) with an active
\* global configuration.  The body never reads max_retries.
RetryFailedAlerts ==
    /\ LifeRuns < MaxRuns
    /\ retry_runs' = retry_runs + 1
    /\ LET pks == failed_instances(pbi_instances)
       IN \E max_retries \in MaxRetriesInputs :
          \E out \in [pks -> [ActiveChatIds(pbi_chats) -> SendOutcomes]] :
            LET st == retry_instances(SetToSeq(pks), pbi_chats, telegram_config, out,
                         [instances |-> pbi_instances,
                          tg |-> [msgs |-> telegram_messages,
                                  outbox |-> telegram_outbox],
                          result |-> [total_retried |-> 0, total_sent |-> 0,
                                      total_failed |-> 0]])
            IN /\ pbi_instances' = st.instances
               /\ telegram_messages' = st.tg.msgs
               /\ telegram_outbox' = st.tg.outbox
               /\ retry_result' =
                    [result |-> st.result,
                     max_retries |-> max_retries,
                     retried |-> (IF retry_result = <<>> THEN <<>>
                                  ELSE retry_result.retried) \o SetToSeq(pks),
                     sent_before |-> {k \in 1..Len(pbi_instances) :
                                         pbi_instances[k].status = "sent"},
                     failed_before |-> {k \in 1..Len(pbi_instances) :
                                           pbi_instances[k].status = "failed"}]
    /\ UNCHANGED <<pbi_chats, pbi_logs, pbi_last_check, pbi_runs, pbi_result,
                   pbi_trace, telegram_config, telegram_chats, varsDetect,
                   varsClassify, varsMail, varsReg, varsFormat, varsConcurrent,
                   varsHandler, varsAll, varsBot, varsLate>>

\* The steps of the other specifications, within the shared bound.
LifeProcessAlertDefinition == LifeRuns < MaxRuns /\ ProcessAlertDefinition
LifeProcessEmails == LifeRuns < MaxRuns /\ ProcessEmails
LifeNewReceivedEmail == LifeRuns < MaxRuns /\ NewReceivedEmail

NextLife ==
    \/ LifeProcessAlertDefinition
    \/ LifeProcessEmails
    \/ LifeNewReceivedEmail
    \/ RetryFailedAlerts

SpecLife == InitLife /\ [][NextLife]_vars

(***************************************************************************)
(* Claims on the life of an alert record.                                  *)
(***************************************************************************)
\* The place of a status in pending -> processing -> sent | failed | ignored.
Rank(status) ==
    CASE status = "pending" -> 0
      [] status = "processing" -> 1
      [] OTHER -> 2

\* A status b may come after a: nothing comes after sent or ignored, and
\* nothing goes back in the order.
Follows(a, b) == a = b \/ (a \notin {"sent", "ignored"} /\ Rank(a) <= Rank(b))

\* The TelegramMessage rows written for the instance with this record id.
DispatchesOf(msgs, record_id) ==
    {i \in 1..Len(msgs) : /\ msgs[i].message_type = "powerbi_alert"
                          /\ msgs[i].about = record_id}

\* What one step does to the records.
LifeStep ==
    /\ Len(pbi_instances') >= Len(pbi_instances)
    /\ \A k \in 1..Len(pbi_instances) :
         LET a == pbi_instances[k]
             b == pbi_instances'[k]
         IN /\ a.powerbi_record_id = b.powerbi_record_id
            /\ Follows(a.status, b.status)
            /\ a.status \in {"sent", "ignored"} =>
                 DispatchesOf(telegram_messages', a.powerbi_record_id) =
                 DispatchesOf(telegram_messages, a.powerbi_record_id)
    /\ \A k \in (Len(pbi_instances) + 1)..Len(pbi_instances') :
         pbi_instances'[k].status \in {"sent", "failed", "ignored"}
    /\ Len(received_emails') >= Len(received_emails)
    /\ \A k \in 1..Len(received_emails) :
         /\ Triple(received_emails'[k]) = Triple(received_emails[k])
         /\ Follows(received_emails[k].status, received_emails'[k].status)
         /\ received_emails[k].status \in {"sent", "ignored"} =>
              email_dispatch'[k] = email_dispatch[k]
    /\ Len(email_dispatch') = Len(received_emails')
    /\ \A k \in (Len(received_emails) + 1)..Len(received_emails') :
         /\ received_emails'[k].status \in {"pending", "sent", "failed"}
         /\ (email_dispatch'[k].successes > 0 /\ ~email_dispatch'[k].raised) =>
              received_emails'[k].status = "sent"
    /\ \A i \in 1..Len(imap_trace') :
         ~imap_trace'[i].had_record =>
            /\ imap_trace'[i].status \in {"pending", "sent", "failed"}
            /\ (imap_trace'[i].met.successes > 0 /\ ~imap_trace'[i].met.raised) =>
                 imap_trace'[i].status = "sent"

RaisingRules ==
    {i \in 1..Len(rules) :
        /\ rules[i].criteria_type \in {"subject_regex", "sender_regex"}
        /\ \E k \in 1..Len(rules[i].criteria_value) : rules[i].criteria_value[k] = "("}

\* The field of the message a rule tests.
TestedField(rule) ==
    CASE rule.criteria_type \in {"subject_contains", "subject_regex"} -> email_data.subject
      [] rule.criteria_type \in {"sender_contains", "sender_regex"} -> email_data.sender
      [] OTHER -> email_data.body

\* The active rules whose predicate does not raise and holds of the message.
SoundMatches ==
    {i \in 1..Len(rules) \ RaisingRules :
        /\ rules[i].is_active
        /\ OccursIgnoringCase(rules[i].criteria_value, TestedField(rules[i]))}

\* C21: a rule whose predicate raises is treated as non-matching: it is
\* never the rule applied, the message is classified by the first of the
\* other matching rules in order, or by the keyword default when there is
\* none, and a classification is always produced.
C21_RaisingRuleSkipped ==
    classified # <<>> =>
        /\ classified.result.rule \notin RaisingRules
        /\ IF SoundMatches = {}
           THEN /\ classified.result.rule = 0
                /\ classified.result.priority = classified.keyword_priority
           ELSE /\ classified.result.rule \in SoundMatches
                /\ classified.result.priority = rules[classified.result.rule].priority
                /\ \A j \in SoundMatches :
                       ~RuleBefore(rules[j], rules[classified.result.rule])

\* An active rule with an invalid pattern stands before a rule that matches,
\* and the message was classified by the later rule.
C21_Witness ==
    /\ classified # <<>>
    /\ \E i \in RaisingRules, j \in SoundMatches :
          /\ rules[i].is_active
          /\ RuleBefore(rules[i], rules[j])
          /\ classified.result.rule = j
          /\ classified.result.priority = rules[j].priority

(***************************************************************************)
(* Claims on the use of the formatting backend (SpecFormat).               *)
(***************************************************************************)
\* The template of the definition, else the tenant's default, is not empty.
TemplateResolves ==
    \/ fmt_definition.openai_template # <<>>
    \/ /\ fmt_definition.tenant_config # <<>>
       /\ fmt_definition.tenant_config[1].default_openai_template # <<>>

\* Without a configured backend no request is sent and the deterministic
\* formatter produces the message, whatever the template.
C22_NoBackendNoRequest ==
    (fmt_out # <<>> /\ ~fmt_definition.openai_service) =>
        /\ fmt_out.calls = 0
        /\ fmt_out.via = "basic"
        /\ fmt_out.text = basic_format(fmt_definition, fmt_row)

\* C22: the backend is called for a record only when a template resolves to
\* a non-empty value and a backend is configured; without a template, or
\* without a backend, no request is sent and the deterministic formatter
\* produces the message.
C22_BackendOnlyWithTemplate ==
    fmt_out # <<>> =>
        IF TemplateResolves /\ fmt_definition.openai_service
        THEN fmt_out.calls = 1
        ELSE /\ fmt_out.calls = 0
             /\ fmt_out.via = "basic"

(***************************************************************************)
(* Claims on the global run log (SpecAll).                                 *)
(***************************************************************************)
\* The due definitions of the last invocation whose processing raised.
RaisedInLast == {j \in pa_last.due : pa_last.query[j] # "ok"}

\* When a due definition was processed without raising, the global entry is
\* warning if another raised and success otherwise.
C23_StatusWhenProcessed ==
    (pa_last # <<>> /\ pa_last.due \ RaisedInLast # {}) =>
        pa_last.global_status = IF RaisedInLast # {} THEN "warning" ELSE "success"

\* C23: the global run-log entry has status info if and only if no
\* definition was due in the invocation; when a definition was due and its
\* processing raised, the status is warning.
C23_InfoIffNoneDue ==
    pa_last # <<>> =>
        /\ pa_last.global_status = "info" <=> pa_last.due = {}
        /\ RaisedInLast # {} => pa_last.global_status = "warning"

(***************************************************************************)
(* Claims on the bound of the retries (SpecLife).                          *)
(***************************************************************************)
\* How many times the retry task has dispatched the instance pk so far.
RetriesOf(pk) ==
    Cardinality({i \in 1..Len(retry_result.retried) : retry_result.retried[i] = pk})

\* C24: retry_failed_alerts(max_retries) dispatches a failed alert again at
\* most max_retries times over the invocations of the task, and an alert
\* whose max_retries retries have failed is marked ignored.
C24_RetryBound ==
    retry_result # <<>> =>
        \A pk \in 1..Len(pbi_instances) :
           /\ RetriesOf(pk) <= retry_result.max_retries
           /\ (RetriesOf(pk) >= retry_result.max_retries
               /\ pbi_instances[pk].status # "sent") =>
                 pbi_instances[pk].status = "ignored"


(***************************************************************************)
(* One destination: TelegramNotificationService._send_message_to_chat and  *)
(* _send_message_with_bot, with what the log-row insert and the HTTP call  *)
(* can meet.                                                               *)
(***************************************************************************)

\* TelegramMessage.email_subject is a CharField(max_length=255); the column
\* is a varchar(255) and the insert of a longer text raises DataError.
EmailSubjectMaxLen == 255

\* Lengths of ReceivedEmail.subject (a CharField of 500) handed over as
\* email_subject; 0 stands for None (system alerts, metric alerts).
EmailSubjectLengths == {0, EmailSubjectMaxLen, EmailSubjectMaxLen + 1}

\* What requests.post meets in _send_message_with_bot: status 200 with
\* ok = true, status 200 with ok = false, another status, or an exception.
HttpOutcomes == {"ok", "not_ok", "status_error", "raises"}

\* _send_message_with_bot: True only for status 200 with ok = true; every
\* exception is caught and gives False.
send_message_with_bot(http) == http = "ok"

\* bot_to_use = chat.bot if chat.bot else self.config, as "a bot is there".
bot_to_use(chat_bot, config) == IF chat_bot THEN TRUE ELSE config

\* What one call of _send_message_to_chat meets, from its inputs: the insert
\* of the pending row stands before the try block, so an insert that raises
\* leaves the call by the exception; a missing bot and a failed HTTP call
\* both save the row as failed.
send_outcome(chat_bot, config, email_subject_len, http) ==
    IF email_subject_len > EmailSubjectMaxLen THEN "raised"
    ELSE IF ~bot_to_use(chat_bot, config) THEN "fail"
    ELSE IF send_message_with_bot(http) THEN "ok"
    ELSE "fail"

InitSend ==
    /\ telegram_config = TRUE
    /\ telegram_chats = <<ChatOf(1, Tenant, TRUE), ChatOf(2, Tenant, TRUE)>>
    /\ telegram_messages = <<>> /\ telegram_outbox = <<>>
    /\ send_attempts = 0 /\ send_last = <<>>
    /\ IdleDetect /\ IdleClassify /\ IdleMetric /\ IdleMail /\ IdleReg
    /\ IdleFormat /\ IdleConcurrent /\ IdleHandler /\ IdleAll
    /\ IdleBot /\ IdleLife /\ IdleSchema

\* One call of _send_message_to_chat for an email alert.
SendMessageToChat ==
    /\ send_attempts < MaxRuns
    /\ \E chat_id \in ChatIds, chat_bot \in BOOLEAN,
          email_subject_len \in EmailSubjectLengths, http \in HttpOutcomes :
         LET outcome == send_outcome(chat_bot, telegram_config,
                                     email_subject_len, http)
             r == send_message_to_chat([msgs |-> telegram_messages,
                                        outbox |-> telegram_outbox],
                                       chat_id, "email_alert",
                                       email_subject_len, outcome)
         IN /\ telegram_messages' = r.tg.msgs
            /\ telegram_outbox' = r.tg.outbox
            /\ send_last' = [chat_id |-> chat_id, chat_bot |-> chat_bot,
                             email_subject_len |-> email_subject_len,
                             http |-> http,
                             entries_before |-> Len(telegram_messages),
                             returned |-> IF r.raised THEN "raised"
                                          ELSE IF r.sent THEN "True"
                                          ELSE "False"]
    /\ send_attempts' = send_attempts + 1
    /\ UNCHANGED <<telegram_config, telegram_chats, varsDetect, varsClassify,
                   varsMetric, varsMail, varsReg, varsFormat, varsConcurrent,
                   varsHandler, varsAll, varsBot, varsLife, varsSchema>>

NextSend == SendMessageToChat

SpecSend == InitSend /\ [][NextSend]_vars

\* The entries the last call added to the notification log.
EntriesOfLastCall ==
    SubSeq(telegram_messages, send_last.entries_before + 1, Len(telegram_messages))

\* C25 (the part that holds): a call that returns leaves exactly one entry,
\* sent iff the Bot API accepted the message and failed otherwise, and no
\* entry of the log is pending.
C25_ReturnedAttemptLogged ==
    /\ \A k \in 1..Len(telegram_messages) :
          telegram_messages[k].status \in {"sent", "failed"}
    /\ (send_last # <<>> /\ send_last.returned # "raised") =>
          /\ Len(EntriesOfLastCall) = 1
          /\ EntriesOfLastCall[1].chat = send_last.chat_id
          /\ EntriesOfLastCall[1].status =
                (IF send_last.http = "ok" THEN "sent" ELSE "failed")
          /\ (send_last.returned = "True") <=> (send_last.http = "ok")

\* C25: every send attempt to one destination creates exactly one
\* notification-log entry, and after the attempt that entry is sent iff the
\* send succeeded and failed otherwise.
C25_OneEntryPerAttempt ==
    send_last # <<>> =>
       /\ Len(EntriesOfLastCall) = 1
       /\ EntriesOfLastCall[1].status =
             (IF send_last.http = "ok" THEN "sent" ELSE "failed")


(***************************************************************************)
(* Claims on last_check after a run that failed at the adapter.            *)
(***************************************************************************)
\* The last run of the handler failed at the adapter: no connection, a
\* refused login, or a SEARCH that was refused or raised.
AdapterFailure ==
    imap_run # <<>> /\ (imap_run.connect # "ok" \/ imap_run.search # "ok")

\* C26 (metric alert definitions): a run of _process_alert_definition that
\* raised (configuration, authentication or query error) did not advance
\* last_check, which still holds the number of an earlier run.
C26_MetricLastCheck ==
    (pbi_result # <<>> /\ pbi_result.raised) => pbi_last_check < pbi_runs

\* C26: last_check is advanced only by a run that completed without an
\* adapter-level failure; here for the mailbox configuration, whose
\* last_check is the number of the run that advanced it.
C26_MailboxLastCheck == AdapterFailure => imap_last_check < imap_runs


(***************************************************************************)
(* Specification SpecSchema: the operations that switch the connection to  *)
(* another tenant schema, as the connection.set_schema calls each of their *)
(* paths makes.                                                            *)
(***************************************************************************)
PublicSchema == "public"

\* The schemas of two tenants.
TenantSchemas == {"tenant_a", "tenant_b"}

\* The set_schema calls of one path, applied in order to the connection:
\* "public" is set_schema("public"), "original" is
\* set_schema(original_schema), "tenant" is set_schema(company.schema_name),
\* "restore_if_changed" is the guarded call of a finally block, and
\* "get_bot_config" is a nested call of _get_bot_config, which saves the
\* schema it meets.
RECURSIVE schema_after(_, _, _, _)
schema_after(schema, original_schema, tenant_schema, steps) ==
    IF steps = <<>> THEN schema
    ELSE LET step == Head(steps)
             next == CASE step = "public" -> PublicSchema
                       [] step = "original" -> original_schema
                       [] step = "tenant" -> tenant_schema
                       [] step = "restore_if_changed" ->
                            (IF schema # original_schema THEN original_schema
                             ELSE schema)
                       [] step = "get_bot_config" ->
                            schema_after(schema, schema, tenant_schema,
                                         <<"public", "original">>)
         IN schema_after(next, original_schema, tenant_schema, Tail(steps))

\* _get_bot_config: the query answers or raises; the finally block restores.
GetBotConfigPaths == {"found", "raised"}

\* _get_bot_config with the finally block left out on the raising path.
get_bot_config_steps_NoFinally(path) ==
    IF path = "raised" THEN <<"public">> ELSE <<"public", "original">>

get_bot_config_steps(path) == <<"public", "original">>

\* send_email_alert: no company; no active chat; at least one chat took the
\* message; none did; the query or a send raised; mark_as_sent raised.
SendEmailAlertPaths ==
    {"no_company", "no_chats", "sent", "none_sent", "raised", "mark_as_sent_raised"}

send_email_alert_steps(path) ==
    CASE path = "no_company" -> <<>>
      [] path \in {"no_chats", "sent", "none_sent"} ->
            <<"public", "original", "restore_if_changed">>
      [] path = "raised" -> <<"public", "original", "restore_if_changed">>
      [] path = "mark_as_sent_raised" ->
            <<"public", "original", "original", "restore_if_changed">>

\* send_system_alert: no company; no chat; the loop ran; something raised.
SendSystemAlertPaths == {"no_company", "no_chats", "done", "raised"}

send_system_alert_steps(path) ==
    IF path = "no_company" THEN <<>>
    ELSE <<"public", "original", "restore_if_changed">>

\* PowerBIAlertService._send_to_telegram: no chat of the definition; the
\* constructor of the notification service raises (no active bot); the loop
\* ran, whatever the sends met.
SendToTelegramPaths == {"no_chats", "no_service", "looped"}

send_to_telegram_steps(path) ==
    IF path = "no_chats" THEN <<>>
    ELSE <<"public", "get_bot_config", "restore_if_changed">>

\* register_chat_with_code: a return before the bot is looked up; no active
\* bot; the chat is created for a code without user email; the create
\* raises; the user of the code is updated; the update raises.
RegisterPaths ==
    {"rejected", "NO_ACTIVE_BOT", "created", "INTERNAL_ERROR", "user_updated",
     "user_update_raised"}

register_chat_with_code_steps(path) ==
    CASE path = "rejected" -> <<>>
      [] path \in {"NO_ACTIVE_BOT", "created", "INTERNAL_ERROR"} ->
            <<"public", "original">>
      [] path \in {"user_updated", "user_update_raised"} ->
            <<"public", "original", "tenant", "public">>

InitSchema ==
    /\ db_schema = PublicSchema /\ schema_calls = 0 /\ schema_last = <<>>
    /\ IdleDetect /\ IdleClassify /\ IdleTelegram /\ IdleMetric /\ IdleMail
    /\ IdleReg /\ IdleFormat /\ IdleConcurrent /\ IdleHandler /\ IdleAll
    /\ IdleBot /\ IdleLife /\ IdleSend

SchemaFrame ==
    UNCHANGED <<varsDetect, varsClassify, varsTelegram, varsMetric, varsMail,
                varsReg, varsFormat, varsConcurrent, varsHandler, varsAll,
                varsBot, varsLife, varsSend>>

\* One operation called on the connection as it stands, for a company whose
\* schema is tenant_schema.
CallOn(op, tenant_schema, path, steps) ==
    /\ schema_calls' = schema_calls + 1
    /\ db_schema' = schema_after(db_schema, db_schema, tenant_schema, steps)
    /\ schema_last' = [op |-> op, path |-> path, entry |-> db_schema,
                       tenant_schema |-> tenant_schema]
    /\ SchemaFrame

\* A task or a request enters the context of a tenant, or of public.
EnterSchema ==
    /\ \E schema \in TenantSchemas \cup {PublicSchema} :
          schema # db_schema /\ db_schema' = schema
    /\ schema_last' = <<>>
    /\ UNCHANGED schema_calls
    /\ SchemaFrame

GetBotConfig ==
    /\ schema_calls < MaxRuns
    /\ \E t \in TenantSchemas, path \in GetBotConfigPaths :
          CallOn("_get_bot_config", t, path, get_bot_config_steps(path))

SendEmailAlert ==
    /\ schema_calls < MaxRuns
    /\ \E t \in TenantSchemas, path \in SendEmailAlertPaths :
          CallOn("send_email_alert", t, path, send_email_alert_steps(path))

SendSystemAlert ==
    /\ schema_calls < MaxRuns
    /\ \E t \in TenantSchemas, path \in SendSystemAlertPaths :
          CallOn("send_system_alert", t, path, send_system_alert_steps(path))

SendToTelegram ==
    /\ schema_calls < MaxRuns
    /\ \E t \in TenantSchemas, path \in SendToTelegramPaths :
          CallOn("_send_to_telegram", t, path, send_to_telegram_steps(path))

\* The only caller is the polling command, which sets the public schema
\* before its loop (run_telegram_bot.py, line 41).
RegisterChatWithCode ==
    /\ schema_calls < MaxRuns
    /\ db_schema = PublicSchema
    /\ \E t \in TenantSchemas, path \in RegisterPaths :
          CallOn("register_chat_with_code", t, path,
                 register_chat_with_code_steps(path))

NextSchema ==
    \/ EnterSchema
    \/ GetBotConfig
    \/ SendEmailAlert
    \/ SendSystemAlert
    \/ SendToTelegram
    \/ RegisterChatWithCode

SpecSchema == InitSchema /\ [][NextSchema]_vars

\* C27: every dispatcher and registration operation that switches the
\* connection to another tenant schema leaves the active schema equal to
\* its value on entry, on every return path, exception paths included.
C27_SchemaRestored == schema_last # <<>> => db_schema = schema_last.entry

\* An alert sent from the context of a tenant met an exception, and a
\* registration updated the user of its code in the tenant schema.
C27_Witness ==
    /\ schema_last # <<>>
    /\ \/ /\ schema_last.entry \in TenantSchemas
          /\ schema_last.path \in {"raised", "mark_as_sent_raised", "no_service"}
       \/ /\ schema_last.op = "register_chat_with_code"
          /\ schema_last.path \in {"user_updated", "user_update_raised"}


(***************************************************************************)
(* Specification SpecRace: two calls of register_chat_with_code with the   *)
(* same code, run p from chat p, their database statements interleaved.    *)
(* The function opens no transaction and takes no lock; what a call read   *)
(* stays in its locals.                                                    *)
(***************************************************************************)
RaceLocal == [k |-> 0, registration_code |-> <<>>, error_code |-> ""]

\* Both calls carry the code of row RaceCode of the table.
RaceCode == cc_local[1].code_row

InitRace ==
    /\ cc_kind = "register"
    /\ cc_pc = [p \in Runs |-> "start"]
    /\ \E k \in {1, 2} : cc_local = [p \in Runs |-> [code_row |-> k] @@ RaceLocal]
    /\ reg_codes = RegCodes
    /\ reg_user_chat = 0 /\ reg_now = 0 /\ reg_last = <<>>
    /\ reg_created = [rc \in {RegCodes[k].code : k \in 1..Len(RegCodes)} |-> 0]
    /\ telegram_config \in BOOLEAN
    /\ telegram_chats = <<>>
    /\ telegram_messages = <<>> /\ telegram_outbox = <<>>
    /\ IdleDetect /\ IdleClassify /\ IdleMetric /\ IdleMail /\ IdleFormat
    /\ IdleHandler /\ IdleAll /\ IdleOps

\* What no step of the two calls changes.
RaceFrame ==
    UNCHANGED <<cc_kind, telegram_config, telegram_messages, telegram_outbox,
                reg_now, reg_last, varsDetect, varsClassify, varsMetric,
                varsMail, varsFormat, varsHandler, varsAll, varsOps>>

RaceReject(p, error_code) ==
    /\ cc_local' = [cc_local EXCEPT ![p].error_code = error_code]
    /\ Goto(p, "done")

\* Lines 481-510: the code is read into registration_code and validated on
\* that object.
RaceGetCode(p) ==
    /\ cc_kind = "register" /\ cc_pc[p] = "start"
    /\ LET found == FindCode(reg_codes, RegCodes[RaceCode].code)
           k == CHOOSE j \in found : TRUE
           rc == reg_codes[k]
       IN IF found = {} THEN RaceReject(p, "CODE_NOT_FOUND")
          ELSE IF rc.is_used THEN RaceReject(p, "CODE_ALREADY_USED")
          ELSE IF is_expired(rc, reg_now) THEN RaceReject(p, "CODE_EXPIRED")
          ELSE /\ cc_local' = [cc_local EXCEPT ![p].k = k,
                                               ![p].registration_code = rc]
               /\ Goto(p, "check_chat")
    /\ UNCHANGED <<reg_codes, telegram_chats, reg_user_chat, reg_created>>
    /\ RaceFrame

\* Lines 512-535: the two lookups of the chat id in the chat table.
RaceCheckChat(p) ==
    /\ cc_kind = "register" /\ cc_pc[p] = "check_chat"
    /\ IF ExistingChatSameCompany(telegram_chats, p,
                                  cc_local[p].registration_code.company)
       THEN RaceReject(p, "CHAT_ALREADY_REGISTERED_SAME_COMPANY")
       ELSE IF ExistingChat(telegram_chats, p)
       THEN RaceReject(p, "CHAT_ALREADY_REGISTERED_OTHER_COMPANY")
       ELSE Goto(p, "bot") /\ UNCHANGED cc_local
    /\ UNCHANGED <<reg_codes, telegram_chats, reg_user_chat, reg_created>>
    /\ RaceFrame

\* Lines 537-550: the active bot.
RaceLookupBot(p) ==
    /\ cc_kind = "register" /\ cc_pc[p] = "bot"
    /\ IF ~telegram_config THEN RaceReject(p, "NO_ACTIVE_BOT")
       ELSE Goto(p, "create") /\ UNCHANGED cc_local
    /\ UNCHANGED <<reg_codes, telegram_chats, reg_user_chat, reg_created>>
    /\ RaceFrame

\* Lines 565-577: TelegramChat.objects.create; chat_id is unique.
RaceCreate(p) ==
    /\ cc_kind = "register" /\ cc_pc[p] = "create"
    /\ IF ExistingChat(telegram_chats, p)
       THEN /\ RaceReject(p, "INTERNAL_ERROR")
            /\ UNCHANGED <<telegram_chats, reg_created>>
       ELSE /\ telegram_chats' =
                 Append(telegram_chats,
                        [chat_id |-> p,
                         company |-> cc_local[p].registration_code.company,
                         is_active |-> TRUE, email_alerts |-> TRUE])
            /\ reg_created' =
                 [reg_created EXCEPT ![cc_local[p].registration_code.code] = @ + 1]
            /\ Goto(p, "mark") /\ UNCHANGED cc_local
    /\ UNCHANGED <<reg_codes, reg_user_chat>>
    /\ RaceFrame

\* Lines 579-580: registration_code.mark_as_used(new_chat) saves the row.
RaceMarkAsUsed(p) ==
    /\ cc_kind = "register" /\ cc_pc[p] = "mark"
    /\ reg_codes' = code_mark_as_used(reg_codes, cc_local[p].k, p, reg_now)
    /\ Goto(p, "user") /\ UNCHANGED cc_local
    /\ UNCHANGED <<telegram_chats, reg_user_chat, reg_created>>
    /\ RaceFrame

\* Lines 582-612: the user the code is assigned to gets the chat id.
RaceUpdateUser(p) ==
    /\ cc_kind = "register" /\ cc_pc[p] = "user"
    /\ LET rc == cc_local[p].registration_code
       IN reg_user_chat' = IF /\ rc.assigned_to_user_email = RegUser.email
                              /\ rc.company = RegUser.company
                           THEN p ELSE reg_user_chat
    /\ Goto(p, "done") /\ UNCHANGED cc_local
    /\ UNCHANGED <<reg_codes, telegram_chats, reg_created>>
    /\ RaceFrame

NextRace ==
    \E p \in Runs :
        \/ RaceGetCode(p) \/ RaceCheckChat(p) \/ RaceLookupBot(p)
        \/ RaceCreate(p) \/ RaceMarkAsUsed(p) \/ RaceUpdateUser(p)

SpecRace == InitRace /\ [][NextRace]_vars

\* The chats of the table that were created with the code of the two calls.
RaceCreated ==
    {c \in Runs : cc_pc[c] \in {"mark", "user", "done"} /\ cc_local[c].error_code = ""}

\* C28 (one call after the other): when the second call starts after the
\* first has marked the code, it is refused and one Destination exists.
C28_OneAfterTheOther ==
    \A p \in Runs :
        (cc_local[p].error_code = "CODE_ALREADY_USED") =>
            Cardinality(RaceCreated) = 1

\* C28: under any interleaving of two register_chat_with_code calls that use
\* the same valid code from two different chats, at most one Destination is
\* created, and the code ends linked to the only Destination created with it.
C28_OneDestinationPerCode ==
    /\ Cardinality(RaceCreated) <= 1
    /\ reg_created[RegCodes[RaceCode].code] <= 1
    /\ (\A p \in Runs : cc_pc[p] = "done") =>
          \A c \in RaceCreated : reg_codes[RaceCode].used_by_chat = c


(***************************************************************************)
(* Claims on a batch that holds one record id twice.                       *)
(***************************************************************************)
\* The rows of the last run that repeat the id of an earlier row of the
\* same batch, the id being new to the table when the run started.
DuplicateRows ==
    {j \in 1..Len(pbi_trace) :
        /\ pbi_trace[j].record_id # <<>>
        /\ \E i \in 1..(j - 1) :
              /\ pbi_trace[i].record_id = pbi_trace[j].record_id
              /\ ~pbi_trace[i].had_instance}

\* C29 (the part that holds): a record id that occurs twice in one batch
\* gets one alert instance, and the duplicate row is not dispatched.
C29_OneInstanceOneDispatch ==
    /\ \A a, b \in 1..Len(pbi_instances) :
          pbi_instances[a].powerbi_record_id = pbi_instances[b].powerbi_record_id
             => a = b
    /\ \A j \in DuplicateRows : ~pbi_trace[j].created /\ pbi_trace[j].attempts = 0

\* C29: the duplicate row of a batch is treated as already seen, counted as
\* skipped and not as a failed alert, so it does not change the run status.
C29_DuplicateSkipped ==
    \A j \in DuplicateRows : pbi_trace[j].counted = "skipped"


(***************************************************************************)
(* Claims on the counts a mailbox run reports.                             *)
(***************************************************************************)
\* C30: the processed and failed counts returned by
\* process_emails_for_config equal the numbers of messages the handler
\* processed and failed in that run; a run that fetched no message reports
\* processed = 0.
C30_ReportedCounts ==
    imap_run # <<>> =>
        /\ imap_run.report.processed = imap_run.processed_count
        /\ imap_run.report.failed = imap_run.failed_count
        /\ (imap_run.fetched = {} => imap_run.report.processed = 0)

====
